---- MODULE Spec2Model ----
(***************************************************************************)
(* Model of the IIROC compliance engine (backend/utils/iirocCompliance.js) *)
(* and of the statistics it takes from financialCalculations.js.           *)
(*                                                                         *)
(* The engine is a set of static functions.  The state of the model is the *)
(* wall clock the engine reads (new Date()), the arguments of the call     *)
(* in progress and the value it returns.  Every operation of the engine    *)
(* is one action: it draws its arguments from bounded sets and stores what *)
(* the code returns for them; calls are synchronous, so a call starts only *)
(* when no other is in progress (op = "none").                             *)
(*                                                                         *)
(* Units.  Percentages of the fund profile (management_fee, expense_ratio) *)
(* are in hundredths of a percent (2.5 % = 250).  Allocation percentages   *)
(* are whole percents, total_return is in whole percents, statistics that  *)
(* the code rounds with toFixed(2) are in hundredths.  Assets under        *)
(* management are in millions (10,000,000 = 10).  Clock and inception date *)
(* are year and month.                                                     *)
(***************************************************************************)
EXTENDS Integers, Sequences, FiniteSets, TLC

VARIABLES
    now,                     \* the wall clock read by new Date()
    op,                      \* name of the operation called, "none" between calls
    fundData,                \* its fund profile argument
    performanceData,         \* its series argument
    alternativeInvestments,  \* its allocation list argument
    riskScoreArg,            \* its risk score argument
    complianceData,          \* its compliance result argument
    returnsArg,              \* its numeric array argument, as the call left it
    benchmarkArg,            \* its second numeric array argument, as the call left it
    params,                  \* its scalar arguments
    passed,                  \* the object and array arguments as the caller passed them
    prevResult,              \* what the preceding call with these arguments returned
    result,                  \* the value it returned
    db                       \* the tables of the SQLite database the routes query

vars ==
    <<now, op, fundData, performanceData, alternativeInvestments, riskScoreArg,
      complianceData, returnsArg, benchmarkArg, params, passed, prevResult, result,
      db>>

\* An argument the operation called does not take, and the result between
\* calls: the empty tuple (op tells it from an empty series or list).
NotPassed == << >>

(***************************************************************************)
(* JavaScript values.  A numeric field is a number, undefined (the         *)
(* property is absent), NaN, or a string (what += yields once an operand   *)
(* is not a number; its text is not tracked).                              *)
(***************************************************************************)
JSNum(n) == [t |-> "number", v |-> n]
JSUndefined == [t |-> "undefined", v |-> 0]
JSNaN == [t |-> "NaN", v |-> 0]
JSString == [t |-> "string", v |-> 0]

IsNum(x) == x.t = "number"

\* a > b on numbers; a comparison with undefined or NaN is false
JSGreater(a, b) == IsNum(a) /\ IsNum(b) /\ a.v > b.v
JSLess(a, b) == IsNum(a) /\ IsNum(b) /\ a.v < b.v
JSLessEq(a, b) == IsNum(a) /\ IsNum(b) /\ a.v <= b.v

\* a + b on numeric fields: undefined + number is NaN
JSAdd(a, b) == IF IsNum(a) /\ IsNum(b) THEN JSNum(a.v + b.v) ELSE JSNaN

\* a - b
JSSub(a, b) == IF IsNum(a) /\ IsNum(b) THEN JSNum(a.v - b.v) ELSE JSNaN

\* !x is false : a number other than 0 and NaN
NumTruthy(x) == IsNum(x) /\ x.v # 0

\* a string property: present with its text, or absent
JSStr(s) == [t |-> "string", s |-> s]
StrUndefined == [t |-> "undefined", s |-> ""]
StrTruthy(x) == x.t = "string" /\ x.s # ""

\* a date property: an ISO date string (year, month) or absent
JSDate(y, m) == [t |-> "string", year |-> y, month |-> m]
DateUndefined == [t |-> "undefined", year |-> 0, month |-> 0]

Min(a, b) == IF a <= b THEN a ELSE b

(***************************************************************************)
(* The clock.  new Date() reads it; time passes between calls.             *)
(***************************************************************************)
MaxTicks == 2

StartClock == [year |-> 2025, month |-> 11]

ClockAfter(k) ==
    LET m == StartClock.month - 1 + k
    IN  [year |-> StartClock.year + (m \div 12), month |-> (m % 12) + 1]

\* new Date().getFullYear()
CurrentFullYear(clk) == JSNum(clk.year)

\* new Date(inception_date).getFullYear(): NaN for an absent date
InceptionFullYear(d) == IF d.t = "string" THEN JSNum(d.year) ELSE JSNaN

(***************************************************************************)
(* Fund profiles                                                           *)
(***************************************************************************)
KnownFundTypes ==
    {"Fixed Income", "Balanced", "Canadian Equity", "Global Equity",
     "Alternative", "Sector", "Real Estate"}

\* Names every object literal inherits from Object.prototype.
ObjectPrototypeNames == {"constructor", "toString", "valueOf", "hasOwnProperty"}

FundTypeValues ==
    {JSStr(s) : s \in KnownFundTypes \cup {"Money Market", "constructor", ""}}
        \cup {StrUndefined}

ManagementFeeValues == {JSUndefined} \cup {JSNum(n) : n \in {0, 150, 250, 251, 300}}

ExpenseRatioValues ==
    {JSUndefined} \cup {JSNum(n) : n \in {0, 100, 150, 151, 200, 201, 300, 301, 350}}

InceptionYears == {2015, 2021, 2023, 2025}

InceptionDateValues ==
    {DateUndefined} \cup {JSDate(y, m) : y \in InceptionYears, m \in {1, 12}}

FundsOver(types, mfees, efees, dates) ==
    [fund_type : types, management_fee : mfees, expense_ratio : efees,
     inception_date : dates]

Funds ==
    FundsOver(FundTypeValues, ManagementFeeValues, ExpenseRatioValues,
              InceptionDateValues)

(***************************************************************************)
(* calculateRiskScore                                                      *)
(***************************************************************************)
\* fundTypeRisk[key]: an own property is a number, a name inherited from
\* Object.prototype is a function, anything else is undefined.
fundTypeRisk(key) ==
    CASE key = "Fixed Income" -> JSNum(2)
      [] key = "Balanced" -> JSNum(4)
      [] key = "Canadian Equity" -> JSNum(6)
      [] key = "Global Equity" -> JSNum(7)
      [] key = "Alternative" -> JSNum(9)
      [] key = "Sector" -> JSNum(8)
      [] key = "Real Estate" -> JSNum(7)
      [] key \in ObjectPrototypeNames -> [t |-> "function", v |-> 0]
      [] OTHER -> JSUndefined

\* the key an undefined fund_type converts to is the string "undefined"
PropertyKey(x) == IF x.t = "string" THEN x.s ELSE "undefined"

\* x || 5 : x unless x is falsy
OrDefault(x, d) ==
    IF x.t = "function" \/ NumTruthy(x) THEN x ELSE JSNum(d)

\* riskScore += x : addition of numbers; with a function operand the
\* result is the concatenation of the two as strings
PlusAssign(score, x) ==
    IF IsNum(score) /\ IsNum(x) THEN JSNum(score.v + x.v) ELSE JSString

\* Math.min(riskScore, 10): a string that is not a numeric literal is NaN
MathMin(score, cap) == IF IsNum(score) THEN JSNum(Min(score.v, cap)) ELSE JSNaN

FeeRisk(fd) ==
    IF JSGreater(fd.expense_ratio, JSNum(200)) THEN 2
    ELSE IF JSGreater(fd.expense_ratio, JSNum(150)) THEN 1
    ELSE 0

\* fundAge: the difference of the two calendar years
FundAge(fd, clk) == JSSub(CurrentFullYear(clk), InceptionFullYear(fd.inception_date))

AgeRisk(fd, clk) ==
    IF JSLess(FundAge(fd, clk), JSNum(3)) THEN 2
    ELSE IF JSLess(FundAge(fd, clk), JSNum(5)) THEN 1
    ELSE 0

calculateRiskScore(fd, clk) ==
    LET s0 == JSNum(0)
        s1 == PlusAssign(s0, OrDefault(fundTypeRisk(PropertyKey(fd.fund_type)), 5))
        s2 == PlusAssign(s1, JSNum(FeeRisk(fd)))
        s3 == PlusAssign(s2, JSNum(AgeRisk(fd, clk)))
    IN  MathMin(s3, 10)

(***************************************************************************)
(* getRiskLevel                                                            *)
(***************************************************************************)
\* mutant: the bucket boundaries taken as strict
getRiskLevel_strict(riskScore) ==
    IF JSLess(riskScore, JSNum(3)) THEN "Low"
    ELSE IF JSLess(riskScore, JSNum(5)) THEN "Low-Medium"
    ELSE IF JSLess(riskScore, JSNum(7)) THEN "Medium"
    ELSE IF JSLess(riskScore, JSNum(9)) THEN "Medium-High"
    ELSE "High"

getRiskLevel(riskScore) ==
    IF JSLessEq(riskScore, JSNum(3)) THEN "Low"
    ELSE IF JSLessEq(riskScore, JSNum(5)) THEN "Low-Medium"
    ELSE IF JSLessEq(riskScore, JSNum(7)) THEN "Medium"
    ELSE IF JSLessEq(riskScore, JSNum(9)) THEN "Medium-High"
    ELSE "High"

MaxRiskScoreArg == 12

RiskScoreArgs == {JSNum(n) : n \in 0..MaxRiskScoreArg} \cup {JSNaN}

(***************************************************************************)
(* checkRiskDisclosure                                                     *)
(***************************************************************************)
requiredDisclosures ==
    <<"fund_type", "management_fee", "expense_ratio", "inception_date">>

\* !fundData[field] is false
FieldTruthy(fd, field) ==
    CASE field = "fund_type" -> StrTruthy(fd.fund_type)
      [] field = "management_fee" -> NumTruthy(fd.management_fee)
      [] field = "expense_ratio" -> NumTruthy(fd.expense_ratio)
      [] field = "inception_date" -> fd.inception_date.t = "string"

checkRiskDisclosure(fd, clk) ==
    LET IsMissing(field) == ~FieldTruthy(fd, field)
        missingDisclosures == SelectSeq(requiredDisclosures, IsMissing)
        riskScore == calculateRiskScore(fd, clk)
    IN  [compliant |-> Len(missingDisclosures) = 0,
         riskScore |-> riskScore,
         missingDisclosures |-> missingDisclosures,
         riskLevel |-> getRiskLevel(riskScore)]

(***************************************************************************)
(* checkFeeDisclosure                                                      *)
(***************************************************************************)
maxManagementFee == 250
maxExpenseRatio == 300
maxTotalFees == 400

\* mutant: a total equal to the maximum counted as a breach
TotalFeesExceed_inclusive(totalFees) ==
    IsNum(totalFees) /\ totalFees.v >= maxTotalFees

\* totalFees > maxTotalFees
TotalFeesExceed(totalFees) == JSGreater(totalFees, JSNum(maxTotalFees))

\* a message of feeViolations: which limit, the value printed, the maximum
FeeMessage(kind, value, max) == [kind |-> kind, value |-> value, max |-> max]

checkFeeDisclosure(fd) ==
    LET v1 == IF JSGreater(fd.management_fee, JSNum(maxManagementFee))
              THEN <<FeeMessage("Management fee", fd.management_fee, maxManagementFee)>>
              ELSE <<>>
        v2 == IF JSGreater(fd.expense_ratio, JSNum(maxExpenseRatio))
              THEN <<FeeMessage("Expense ratio", fd.expense_ratio, maxExpenseRatio)>>
              ELSE <<>>
        totalFees == JSAdd(fd.management_fee, fd.expense_ratio)
        v3 == IF TotalFeesExceed(totalFees)
              THEN <<FeeMessage("Total fees", totalFees, maxTotalFees)>>
              ELSE <<>>
        feeViolations == v1 \o v2 \o v3
    IN  [compliant |-> Len(feeViolations) = 0,
         violations |-> feeViolations,
         totalFees |-> totalFees,
         managementFee |-> fd.management_fee,
         expenseRatio |-> fd.expense_ratio]

(***************************************************************************)
(* Series of performance observations and allocation lists                 *)
(***************************************************************************)
MaxSeriesLen == 13
MaxAllocs == 2

NavValues == {80, 100}
TotalReturnValues == {-30, 0, 30}
AumValues == {0, 9, 10, 45, 100}

ObsOver(navs, rets, aums) ==
    [nav : navs, total_return : rets, assets_under_management : aums]

Obs == ObsOver(NavValues, TotalReturnValues, AumValues)

\* n observations: n - 1 times first, then last
Padded(first, last, n) == [i \in 1..n |-> IF i < n THEN first ELSE last]

SeriesOver(obs) ==
    {<< >>} \cup {<<a>> : a \in obs}
        \cup {Padded(f, l, n) : f \in obs, l \in obs, n \in 2..MaxSeriesLen}

Series == SeriesOver(Obs)

AllocationValues == {0, 20, 21, 25, 100}

AllocsOver(types, pcts) == [investment_type : types, allocation_percentage : pcts]

AllocListsOver(recs) == UNION {[1..n -> recs] : n \in 0..MaxAllocs}

AllocLists == AllocListsOver(AllocsOver({"REITs", "Hedge Funds"}, AllocationValues))

\* array.map(x => x[field])
MapField(seq, field) == [i \in DOMAIN seq |-> seq[i][field]]

\* array.reduce((sum, x) => sum + x, 0)
RECURSIVE SumSeq(_)
SumSeq(seq) == IF seq = << >> THEN 0 ELSE Head(seq) + SumSeq(Tail(seq))

\* array.reduce((sum, x) => sum + x * x, 0)
RECURSIVE SumSquares(_)
SumSquares(seq) ==
    IF seq = << >> THEN 0 ELSE Head(seq) * Head(seq) + SumSquares(Tail(seq))

\* the largest s in lo..hi with s * s <= w
RECURSIVE ISqrtIn(_, _, _)
ISqrtIn(lo, hi, w) ==
    IF lo >= hi THEN lo
    ELSE LET mid == (lo + hi + 1) \div 2
         IN  IF mid * mid <= w THEN ISqrtIn(mid, hi, w) ELSE ISqrtIn(lo, mid - 1, w)

ISqrt(w) == ISqrtIn(0, 46340, w)

\* toFixed(2) of num / den, in hundredths (num >= 0, den > 0)
ToFixed2(num, den) == (2 * 100 * num + den) \div (2 * den)

(***************************************************************************)
(* FinancialCalculations: the statistics the compliance checks report      *)
(***************************************************************************)
\* mutant: the variance returned without its square root
calculateVolatility_variance(returns) ==
    IF Len(returns) = 0 THEN 0
    ELSE LET n == Len(returns)
             d == n * SumSquares(returns) - SumSeq(returns) * SumSeq(returns)
         IN  ToFixed2(d, n * n)

\* Population standard deviation of returns given in whole percents,
\* rounded to hundredths.  With n values of sum s1 and sum of squares s2
\* the variance is d / n^2 for d = n * s2 - s1^2, and the rounded root is
\* the k with (2k - 1)^2 <= 4 * 10^4 * d / n^2 < (2k + 1)^2.
calculateVolatility(returns) ==
    IF Len(returns) = 0 THEN 0
    ELSE LET n == Len(returns)
             d == n * SumSquares(returns) - SumSeq(returns) * SumSeq(returns)
             w == 40000 * (d \div (n * n)) + (40000 * (d % (n * n))) \div (n * n)
         IN  (ISqrt(w) + 1) \div 2

\* The loop of calculateMaxDrawdown from position i, with the running peak
\* and the largest drawdown so far as the fraction num / den.
RECURSIVE DrawdownLoop(_, _, _, _, _)
DrawdownLoop(navValues, i, peak, num, den) ==
    IF i > Len(navValues) THEN [num |-> num, den |-> den]
    ELSE IF navValues[i] > peak
         THEN DrawdownLoop(navValues, i + 1, navValues[i], num, den)
         ELSE IF (peak - navValues[i]) * den > num * peak
              THEN DrawdownLoop(navValues, i + 1, peak, peak - navValues[i], peak)
              ELSE DrawdownLoop(navValues, i + 1, peak, num, den)

\* mutant: every decline measured from the first value
RECURSIVE DeclineFromFirst(_, _, _)
DeclineFromFirst(navValues, i, best) ==
    IF i > Len(navValues) THEN best
    ELSE IF navValues[1] - navValues[i] > best
         THEN DeclineFromFirst(navValues, i + 1, navValues[1] - navValues[i])
         ELSE DeclineFromFirst(navValues, i + 1, best)

calculateMaxDrawdown_fromFirst(navValues) ==
    IF Len(navValues) = 0 THEN 0
    ELSE ToFixed2(100 * DeclineFromFirst(navValues, 2, 0), navValues[1])

\* in hundredths of a percent
calculateMaxDrawdown(navValues) ==
    IF Len(navValues) = 0 THEN 0
    ELSE LET m == DrawdownLoop(navValues, 2, navValues[1], 0, 1)
         IN  ToFixed2(100 * m.num, m.den)

\* mutant: the weights taken as shares of 100 and not of the total
calculateConcentrationRisk_ofHundred(allocations) ==
    IF Len(allocations) = 0 THEN 0
    ELSE LET totalAllocation == SumSeq(allocations)
         IN  IF totalAllocation = 0 THEN 0
             ELSE ToFixed2(100 * SumSquares(allocations), 100 * 100)

\* Herfindahl-Hirschman index times 100, in hundredths
calculateConcentrationRisk(allocations) ==
    IF Len(allocations) = 0 THEN 0
    ELSE LET totalAllocation == SumSeq(allocations)
         IN  IF totalAllocation = 0 THEN 0
             ELSE ToFixed2(100 * SumSquares(allocations),
                           totalAllocation * totalAllocation)

(***************************************************************************)
(* checkConcentrationLimits                                                *)
(***************************************************************************)
maxConcentration == 20

\* mutant: an allocation equal to the limit counted as a violation
ExceedsLimit_inclusive(inv) == inv.allocation_percentage >= maxConcentration

\* inv.allocation_percentage > maxConcentration
ExceedsLimit(inv) == inv.allocation_percentage > maxConcentration

checkConcentrationLimits(ai) ==
    LET totalAllocation == SumSeq(MapField(ai, "allocation_percentage"))
        violations == SelectSeq(ai, ExceedsLimit)
        concentrationRisk ==
            calculateConcentrationRisk(MapField(ai, "allocation_percentage"))
    IN  [compliant |-> Len(violations) = 0,
         concentrationRisk |-> concentrationRisk,
         violations |->
             [i \in DOMAIN violations |->
                 [type |-> violations[i].investment_type,
                  allocation |-> violations[i].allocation_percentage,
                  limit |-> maxConcentration]],
         totalAlternativeAllocation |-> totalAllocation]

(***************************************************************************)
(* checkPerformanceReporting                                               *)
(***************************************************************************)
\* mutant: exactly twelve observations not enough
HasRequiredPeriods_strict(pd) == Len(pd) > 12

\* at least one year of monthly observations
HasRequiredPeriods(pd) == Len(pd) >= 12

checkPerformanceReporting(pd) ==
    IF Len(pd) = 0
    THEN [compliant |-> FALSE, reason |-> "No performance data available"]
    ELSE LET hasRequiredPeriods == HasRequiredPeriods(pd)
         IN  [compliant |-> hasRequiredPeriods,
              volatility |-> calculateVolatility(MapField(pd, "total_return")),
              maxDrawdown |-> calculateMaxDrawdown(MapField(pd, "nav")),
              dataPoints |-> Len(pd),
              hasRequiredPeriods |-> hasRequiredPeriods]

(***************************************************************************)
(* checkLiquidityRequirements                                              *)
(***************************************************************************)
minAUM == 10
maxLiquidityRatio == 30

\* a number kept as the fraction num / den (den > 0)
JSRatio(num, den) == [t |-> "number", num |-> num, den |-> den]
RatioNaN == [t |-> "NaN", num |-> 0, den |-> 1]
RatioInfinity == [t |-> "Infinity", num |-> 0, den |-> 1]

\* mutant: a tenth of the average AUM traded daily
calculateAverageDailyVolume_tenPercent(pd) ==
    IF Len(pd) < 2 THEN JSRatio(0, 1)
    ELSE JSRatio(SumSeq(MapField(pd, "assets_under_management")), Len(pd) * 10)

\* avgAUM * 0.01, or 0 for fewer than two observations
calculateAverageDailyVolume(pd) ==
    IF Len(pd) < 2 THEN JSRatio(0, 1)
    ELSE JSRatio(SumSeq(MapField(pd, "assets_under_management")), Len(pd) * 100)

\* a / b for a >= 0 and a fraction b >= 0: x / 0 is Infinity, 0 / 0 is NaN
DivideBy(a, b) ==
    IF b.num = 0 THEN (IF a = 0 THEN RatioNaN ELSE RatioInfinity)
    ELSE JSRatio(a * b.den, b.num)

\* ratio <= limit; false for NaN and Infinity
RatioLessEq(r, limit) == r.t = "number" /\ r.num <= limit * r.den

\* mutant: a ratio equal to the limit counted as illiquid
LiquidityCompliant_strict(recentAUM, liquidityRatio) ==
    /\ recentAUM >= minAUM
    /\ liquidityRatio.t = "number"
    /\ liquidityRatio.num < maxLiquidityRatio * liquidityRatio.den

\* recentAUM >= minAUM && liquidityRatio <= 30
LiquidityCompliant(recentAUM, liquidityRatio) ==
    recentAUM >= minAUM /\ RatioLessEq(liquidityRatio, maxLiquidityRatio)

checkLiquidityRequirements(fd, pd) ==
    IF Len(pd) = 0
    THEN [compliant |-> FALSE, reason |-> "Insufficient data for liquidity analysis"]
    ELSE LET recentAUM == pd[Len(pd)].assets_under_management
             avgDailyVolume == calculateAverageDailyVolume(pd)
             liquidityRatio == DivideBy(recentAUM, avgDailyVolume)
         IN  [compliant |-> LiquidityCompliant(recentAUM, liquidityRatio),
              aum |-> recentAUM,
              minAUM |-> minAUM,
              liquidityRatio |-> liquidityRatio,
              avgDailyVolume |-> avgDailyVolume]

(***************************************************************************)
(* checkCompliance                                                         *)
(***************************************************************************)
\* array.push(name)
Push(list, name) == Append(list, name)

\* mutant: a failed risk disclosure treated as a hard failure
Aggregate_riskDisclosureHard(complianceChecks) ==
    LET Failed(check) == ~complianceChecks[check].compliant
        Names(list) == SelectSeq(list, LAMBDA e : Failed(e[1]))
        hard == Names(<<<<"concentrationLimits", "Concentration Limits">>,
                        <<"riskDisclosure", "Risk Disclosure">>,
                        <<"feeDisclosure", "Fee Disclosure">>>>)
        soft == Names(<<<<"performanceReporting", "Performance Reporting">>,
                        <<"liquidityRequirements", "Liquidity Requirements">>>>)
    IN  [complianceChecks EXCEPT
            !.overallCompliant = (Len(hard) = 0),
            !.violations = [i \in DOMAIN hard |-> hard[i][2]],
            !.warnings = [i \in DOMAIN soft |-> soft[i][2]]]

\* The aggregation of checkCompliance: the five if statements in the order
\* of the code, each on the object the statements before it left.
Aggregate(complianceChecks) ==
    LET c1 == IF ~complianceChecks.concentrationLimits.compliant
              THEN [complianceChecks EXCEPT
                        !.overallCompliant = FALSE,
                        !.violations = Push(@, "Concentration Limits")]
              ELSE complianceChecks
        c2 == IF ~c1.riskDisclosure.compliant
              THEN [c1 EXCEPT !.warnings = Push(@, "Risk Disclosure")]
              ELSE c1
        c3 == IF ~c2.performanceReporting.compliant
              THEN [c2 EXCEPT !.warnings = Push(@, "Performance Reporting")]
              ELSE c2
        c4 == IF ~c3.feeDisclosure.compliant
              THEN [c3 EXCEPT
                        !.violations = Push(@, "Fee Disclosure"),
                        !.overallCompliant = FALSE]
              ELSE c3
        c5 == IF ~c4.liquidityRequirements.compliant
              THEN [c4 EXCEPT !.warnings = Push(@, "Liquidity Requirements")]
              ELSE c4
    IN  c5

\* mutant: the overall flag cleared by every failed check
checkCompliance_anyFailure(fd, pd, ai, clk) ==
    LET r == Aggregate([concentrationLimits |-> checkConcentrationLimits(ai),
                        riskDisclosure |-> checkRiskDisclosure(fd, clk),
                        performanceReporting |-> checkPerformanceReporting(pd),
                        feeDisclosure |-> checkFeeDisclosure(fd),
                        liquidityRequirements |-> checkLiquidityRequirements(fd, pd),
                        overallCompliant |-> TRUE,
                        warnings |-> << >>,
                        violations |-> << >>])
    IN  [r EXCEPT !.overallCompliant = @ /\ Len(r.warnings) = 0]

checkCompliance(fd, pd, ai, clk) ==
    Aggregate([concentrationLimits |-> checkConcentrationLimits(ai),
               riskDisclosure |-> checkRiskDisclosure(fd, clk),
               performanceReporting |-> checkPerformanceReporting(pd),
               feeDisclosure |-> checkFeeDisclosure(fd),
               liquidityRequirements |-> checkLiquidityRequirements(fd, pd),
               overallCompliant |-> TRUE,
               warnings |-> << >>,
               violations |-> << >>])

Includes(list, name) == \E i \in DOMAIN list : list[i] = name

Recommendation(priority, category, action, deadline) ==
    [priority |-> priority, category |-> category, action |-> action,
     deadline |-> deadline]

\* mutant: the liquidity warning looked up under the recommendation's category
generateRecommendations_byCategory(cd) ==
    LET r1 == IF ~cd.concentrationLimits.compliant
              THEN Push(<< >>, Recommendation("HIGH", "Concentration Limits",
                        "Review and rebalance portfolio to meet IIROC concentration limits",
                        "30 days"))
              ELSE << >>
        r2 == IF ~cd.feeDisclosure.compliant
              THEN Push(r1, Recommendation("HIGH", "Fee Disclosure",
                        "Review fee structure and ensure compliance with IIROC fee limits",
                        "15 days"))
              ELSE r1
        r3 == IF Includes(cd.warnings, "Risk Disclosure")
              THEN Push(r2, Recommendation("MEDIUM", "Risk Disclosure",
                        "Update fund documentation with complete risk disclosures",
                        "60 days"))
              ELSE r2
        r4 == IF Includes(cd.warnings, "Liquidity")
              THEN Push(r3, Recommendation("MEDIUM", "Liquidity",
                        "Monitor liquidity ratios and consider portfolio adjustments",
                        "90 days"))
              ELSE r3
    IN  r4

generateRecommendations(cd) ==
    LET r1 == IF ~cd.concentrationLimits.compliant
              THEN Push(<< >>, Recommendation("HIGH", "Concentration Limits",
                        "Review and rebalance portfolio to meet IIROC concentration limits",
                        "30 days"))
              ELSE << >>
        r2 == IF ~cd.feeDisclosure.compliant
              THEN Push(r1, Recommendation("HIGH", "Fee Disclosure",
                        "Review fee structure and ensure compliance with IIROC fee limits",
                        "15 days"))
              ELSE r1
        r3 == IF Includes(cd.warnings, "Risk Disclosure")
              THEN Push(r2, Recommendation("MEDIUM", "Risk Disclosure",
                        "Update fund documentation with complete risk disclosures",
                        "60 days"))
              ELSE r2
        r4 == IF Includes(cd.warnings, "Liquidity Requirements")
              THEN Push(r3, Recommendation("MEDIUM", "Liquidity",
                        "Monitor liquidity ratios and consider portfolio adjustments",
                        "90 days"))
              ELSE r3
    IN  r4

\* An alert; the message is the template's pieces, value is the number the
\* template formats (0 where it formats none).
Alert(type, severity, message, value, threshold) ==
    [type |-> type, severity |-> severity, message |-> message,
     value |-> value, threshold |-> threshold]

\* checkRegulatoryAlerts, thresholds in hundredths (25 is 2500, 2.0 is 200)
checkRegulatoryAlerts(fd, pd, clk) ==
    LET volatility == calculateVolatility(MapField(pd, "total_return"))
        a1 == IF Len(pd) > 0 /\ volatility > 2500
              THEN Push(<< >>, Alert("HIGH_VOLATILITY", "WARNING",
                        "Fund volatility (${volatility.toFixed(2)}%) exceeds normal range",
                        JSNum(volatility), 2500))
              ELSE << >>
        a2 == IF JSGreater(fd.expense_ratio, JSNum(200))
              THEN Push(a1, Alert("HIGH_FEES", "WARNING",
                        "Expense ratio (${fundData.expense_ratio}%) is above industry average",
                        fd.expense_ratio, 200))
              ELSE a1
        fundAge == JSSub(CurrentFullYear(clk), InceptionFullYear(fd.inception_date))
        a3 == IF JSLess(fundAge, JSNum(1))
              THEN Push(a2, Alert("NEW_FUND", "INFO",
                        "Fund is less than 1 year old - limited performance history",
                        JSNum(0), 100))
              ELSE a2
    IN  a3

\* The arguments checkRegulatoryAlerts is called with: expense ratios on both
\* sides of 2.0, every inception date, and series whose volatility is below,
\* at and above 25.
AlertFunds ==
    FundsOver({JSStr("Balanced")}, {JSNum(150)},
              {JSUndefined, JSNum(200), JSNum(201)}, InceptionDateValues)

AlertSeries == SeriesOver(ObsOver({100}, {-25, 0, 25, 26}, {100}))

\* ---------------------------------------------------------------------
\* FinancialCalculations: the personal rate of return

\* throw new Error(message)
Throw(message) == [t |-> "throw", message |-> message]

Threw(r) == r.t = "throw"

Abs(x) == IF x < 0 THEN -x ELSE x

\* parseFloat((num / den).toFixed(2)) in hundredths, for den > 0: toFixed
\* rounds the magnitude, halves away from zero, and keeps the sign
ToFixed2Signed(num, den) ==
    LET a == Abs(num) \div den
        r == Abs(num) % den
        h == 100 * a + (200 * r + den) \div (2 * den)
    IN  IF num < 0 THEN -h ELSE h

\* mutant: a beginning value of zero let through
BeginningValueInvalid_strict(beginningValue) == beginningValue < 0

BeginningValueInvalid(beginningValue) == beginningValue <= 0

\* denominator <= 0, on twelve times the denominator
DenominatorInvalid(denominator) == denominator <= 0

\* mutant: the withdrawals left out of the net cash flow
NetCashFlow_contributionsOnly(contributions, withdrawals) == contributions

NetCashFlow(contributions, withdrawals) == contributions - withdrawals

\* calculatePROR on whole amounts and whole months. The weighted
\* contributions and the denominator are kept as twelfths, so that
\* (gain / denominator) * 100 is 1200 * gain / (12 * denominator).
calculatePROR(beginningValue, endingValue, contributions, withdrawals, timePeriod) ==
    IF BeginningValueInvalid(beginningValue)
    THEN Throw("Beginning value must be greater than zero")
    ELSE LET netCashFlow == NetCashFlow(contributions, withdrawals)
             weightedContributions12 == contributions * timePeriod
             denominator12 == 12 * beginningValue + weightedContributions12
         IN  IF DenominatorInvalid(denominator12)
             THEN Throw("Invalid calculation parameters")
             ELSE JSNum(ToFixed2Signed(
                        1200 * (endingValue - beginningValue - netCashFlow),
                        denominator12))

\* The arguments of calculatePROR: amounts on both sides of zero, and
\* periods whose twelfth is a binary fraction, on which the double
\* arithmetic of the code is exact up to the final rounding.
BeginningValues == {-100, 0, 100, 10000}

EndingValues == {0, 90, 150, 11000}

ContributionValues == {-2000, -200, 0, 1000}

WithdrawalValues == {0, 50}

TimePeriods == {0, 6, 12, 24}

PRORArgs ==
    [beginningValue : BeginningValues, endingValue : EndingValues,
     contributions : ContributionValues, withdrawals : WithdrawalValues,
     timePeriod : TimePeriods]


\* ---------------------------------------------------------------------
\* FinancialCalculations: ratios of returns. Returns are whole percents,
\* the risk-free rate 2.5 is kept as 5 halves, and a result rounded with
\* toFixed(3) is in thousandths.

MaxReturns == 3

MaxPairLen == 2

ReturnValues == {-5, 0, 5, 10}

SeqsUpTo(values, n) == UNION {[1..k -> values] : k \in 0..n}

StatReturns == SeqsUpTo(ReturnValues, MaxReturns)

\* an array argument, or undefined where the caller passes none
JSArray(items) == [t |-> "array", items |-> items]
ArrayUndefined == [t |-> "undefined", items |-> << >>]

ReturnPairs ==
    {<<f, JSArray(b)>> : f \in SeqsUpTo(ReturnValues, MaxPairLen),
                         b \in SeqsUpTo(ReturnValues, MaxPairLen)}

\* reduce((sum, x) => sum + x * y, 0) over two arrays of one length
RECURSIVE SumProducts(_, _)
SumProducts(a, b) ==
    IF a = << >> THEN 0
    ELSE Head(a) * Head(b) + SumProducts(Tail(a), Tail(b))

\* parseFloat((num / den).toFixed(digits)) as a multiple of 1 / scale, for
\* den # 0: the magnitude rounded, halves away from zero, the sign kept
ToFixedSigned(num, den, scale) ==
    LET n == IF den < 0 THEN -num ELSE num
        d == Abs(den)
        a == Abs(n) \div d
        r == Abs(n) % d
        h == scale * a + (2 * scale * r + d) \div (2 * d)
    IN  IF n < 0 THEN -h ELSE h

\* (P / 2) / Math.sqrt(den / num) with toFixed(3), in thousandths: the
\* square of twice the result is 10^6 * P * P * num / den
RatioOverRoot(P, num, den) ==
    LET t == P * P * num
        w == 1000000 * (t \div den) + (1000000 * (t % den)) \div den
        h == (ISqrt(w) + 1) \div 2
    IN  IF P < 0 THEN -h ELSE h

\* n * n times the variance of the array
ScaledVariance(returns) ==
    Len(returns) * SumSquares(returns) - SumSeq(returns) * SumSeq(returns)

\* twice n times (avgReturn - riskFreeRate), riskFreeRate = 2.5
ScaledExcess(returns) == 2 * SumSeq(returns) - 5 * Len(returns)

calculateSharpeRatio(returns) ==
    IF Len(returns) = 0 THEN JSNum(0)
    ELSE IF ScaledVariance(returns) = 0 THEN JSNum(0)
    ELSE JSNum(RatioOverRoot(ScaledExcess(returns), 1, ScaledVariance(returns)))

\* returns.filter(ret => ret < avgReturn)
Downside(returns) ==
    SelectSeq(returns, LAMBDA ret : Len(returns) * ret < SumSeq(returns))

\* n * n times the sum of the squared distances to the average
RECURSIVE ScaledSquaredDistances(_, _, _)
ScaledSquaredDistances(seq, n, sum) ==
    IF seq = << >> THEN 0
    ELSE (n * Head(seq) - sum) * (n * Head(seq) - sum)
            + ScaledSquaredDistances(Tail(seq), n, sum)

calculateSortinoRatio(returns) ==
    IF Len(returns) = 0 THEN JSNum(0)
    ELSE LET downsideReturns == Downside(returns)
             ds == ScaledSquaredDistances(downsideReturns, Len(returns),
                                          SumSeq(returns))
         IN  IF Len(downsideReturns) = 0 THEN JSNum(0)
             ELSE IF ds = 0 THEN JSNum(0)
             ELSE JSNum(RatioOverRoot(ScaledExcess(returns), Len(returns), ds))

\* fundReturns.length !== benchmarkReturns.length || fundReturns.length === 0
BetaDefaults(fundReturns, benchmarkReturns) ==
    Len(fundReturns) # Len(benchmarkReturns.items) \/ Len(fundReturns) = 0

\* mutant: the covariance divided by the variance of the fund
calculateBeta_byFundVariance(fundReturns, benchmarkReturns) ==
    IF benchmarkReturns.t = "undefined"
    THEN Throw("TypeError: Cannot read properties of undefined (reading 'length')")
    ELSE IF BetaDefaults(fundReturns, benchmarkReturns) THEN JSNum(1000)
    ELSE LET b == benchmarkReturns.items
             n == Len(fundReturns)
             covariance == n * SumProducts(fundReturns, b)
                                - SumSeq(fundReturns) * SumSeq(b)
         IN  IF ScaledVariance(b) = 0 \/ ScaledVariance(fundReturns) = 0
             THEN JSNum(1000)
             ELSE JSNum(ToFixedSigned(covariance, ScaledVariance(fundReturns), 1000))

\* calculateBeta in thousandths; reading .length of undefined raises
calculateBeta(fundReturns, benchmarkReturns) ==
    IF benchmarkReturns.t = "undefined"
    THEN Throw("TypeError: Cannot read properties of undefined (reading 'length')")
    ELSE IF BetaDefaults(fundReturns, benchmarkReturns) THEN JSNum(1000)
    ELSE LET b == benchmarkReturns.items
             n == Len(fundReturns)
             covariance == n * SumProducts(fundReturns, b)
                                - SumSeq(fundReturns) * SumSeq(b)
             benchmarkVariance == ScaledVariance(b)
         IN  IF benchmarkVariance = 0 THEN JSNum(1000)
             ELSE JSNum(ToFixedSigned(covariance, benchmarkVariance, 1000))

\* calculateTreynorRatio in thousandths: the average of an empty array is
\* 0 / 0, and NaN goes through the division and toFixed
calculateTreynorRatio(returns, benchmarkReturns) ==
    LET beta == calculateBeta(returns, benchmarkReturns)
    IN  IF Threw(beta) THEN beta
        ELSE IF beta.v = 0 THEN JSNum(0)
        ELSE IF Len(returns) = 0 THEN JSNaN
        ELSE JSNum(ToFixedSigned(1000 * ScaledExcess(returns),
                                 2 * Len(returns) * beta.v, 1000))

\* 2000 * nf * nb times alpha = fundAvgReturn - (2.5 + beta *
\* (benchmarkAvgReturn - 2.5)), beta in thousandths
ScaledAlpha(fundReturns, b, beta) ==
    2000 * Len(b) * SumSeq(fundReturns) - 5000 * Len(fundReturns) * Len(b)
        - beta * Len(fundReturns) * ScaledExcess(b)

\* calculateJensensAlpha in hundredths
calculateJensensAlpha(fundReturns, benchmarkReturns) ==
    LET beta == calculateBeta(fundReturns, benchmarkReturns)
        b == benchmarkReturns.items
    IN  IF Threw(beta) THEN beta
        ELSE IF Len(fundReturns) = 0 \/ Len(b) = 0 THEN JSNaN
        ELSE JSNum(ToFixedSigned(ScaledAlpha(fundReturns, b, beta.v),
                                 2000 * Len(fundReturns) * Len(b), 100))

\* alpha lies exactly between two hundredths: which one toFixed(2) yields
\* is decided by the rounding error of the double, so the calls made leave
\* these arguments out
AlphaTie(fundReturns, benchmarkReturns) ==
    LET beta == calculateBeta(fundReturns, benchmarkReturns)
        b == benchmarkReturns.items
        den == 2000 * Len(fundReturns) * Len(b)
    IN  /\ den # 0
        /\ (200 * Abs(ScaledAlpha(fundReturns, b, beta.v))) % (2 * den) = den

\* Math.floor(1000000 * t / den) for 0 <= t and den > 0, two decimal
\* digits at a time
RECURSIVE ScaleDivFrom(_, _, _, _)
ScaleDivFrom(w, r, den, steps) ==
    IF steps = 0 THEN w
    ELSE ScaleDivFrom(100 * w + (100 * r) \div den, (100 * r) % den, den,
                      steps - 1)

ScaleDiv(t, den) == ScaleDivFrom(t \div den, t % den, den, 3)

\* mutant: the default of calculateBeta returned on a zero denominator
ZeroDenominatorCorrelation_one == JSNum(1000)

\* if (denominator === 0) return 0
ZeroDenominatorCorrelation == JSNum(0)

\* calculateCorrelation in thousandths: numerator / Math.sqrt(denominator1 *
\* denominator2), each sum taken n times over
calculateCorrelation(returns1, returns2) ==
    IF Len(returns1) # Len(returns2.items) \/ Len(returns1) = 0 THEN JSNum(0)
    ELSE LET r2 == returns2.items
             n == Len(returns1)
             numerator == n * SumProducts(returns1, r2)
                                - SumSeq(returns1) * SumSeq(r2)
             denominator1 == ScaledVariance(returns1)
             denominator2 == ScaledVariance(r2)
         IN  IF denominator1 * denominator2 = 0 THEN ZeroDenominatorCorrelation
             ELSE LET w == ScaleDiv(4 * numerator * numerator,
                                    denominator1 * denominator2)
                      h == (ISqrt(w) + 1) \div 2
                  IN  JSNum(IF numerator < 0 THEN -h ELSE h)

\* the allocation lists calculateConcentrationRisk is called with
MaxWeights == 4

WeightLists == SeqsUpTo({0, 10, 25}, MaxWeights) \cup {<<100>>}

\* every allocation multiplied by the same factor
Scaled(allocations, factor) ==
    [i \in DOMAIN allocations |-> factor * allocations[i]]

ScaleFactors == {2, 3}

\* Math.pow(x, k) for a whole exponent k
RECURSIVE Power(_, _)
Power(x, k) == IF k = 0 THEN 1 ELSE x * Power(x, k - 1)

\* the periods calculateAnnualizedReturn is called with: 12 / timePeriod is
\* a whole number for each
AnnualizationPeriods == {4, 6, 12}

\* calculateAnnualizedReturn in hundredths. The reduce starts at 1 and adds
\* 1 + ret / 100 for each return: 100 times totalReturn is 100 * (n + 1)
\* plus the sum of the returns.
calculateAnnualizedReturn(returns, timePeriod) ==
    IF Len(returns) = 0 THEN JSNum(0)
    ELSE LET totalReturn100 == 100 * (Len(returns) + 1) + SumSeq(returns)
             exponent == 12 \div timePeriod
             gain == Power(totalReturn100, exponent) - Power(100, exponent)
         IN  IF exponent = 1 THEN JSNum(100 * gain)
             ELSE JSNum(ToFixedSigned(gain, Power(100, exponent - 2), 1))

RiskMeasures == {"sharpe", "Sortino", "TREYNOR", "volatility"}

\* String.prototype.toLowerCase on the names above
ToLowerCase(str) ==
    CASE str = "Sortino" -> "sortino"
      [] str = "TREYNOR" -> "treynor"
      [] OTHER -> str

\* calculateRiskAdjustedReturn: the Treynor case passes no benchmark
calculateRiskAdjustedReturn(returns, riskMeasure) ==
    CASE ToLowerCase(riskMeasure) = "sharpe" -> calculateSharpeRatio(returns)
      [] ToLowerCase(riskMeasure) = "sortino" -> calculateSortinoRatio(returns)
      [] ToLowerCase(riskMeasure) = "treynor" ->
            calculateTreynorRatio(returns, ArrayUndefined)
      [] OTHER -> calculateSharpeRatio(returns)


\* ---------------------------------------------------------------------
\* FinancialCalculations: value at risk. Returns are thousandths of a
\* percent, confidence levels hundredths, results hundredths of a percent.

MaxVaRLen == 5

VaRReturnValues == {-2000, -1236, -1233, 500}

VaRReturns == SeqsUpTo(VaRReturnValues, MaxVaRLen)

ConfidenceLevels == {50, 80, 95, 100}

\* sortedReturns.sort((a, b) => a - b): x put into an ascending array
RECURSIVE InsertAscending(_, _)
InsertAscending(sorted, x) ==
    IF sorted = << >> THEN <<x>>
    ELSE IF x <= Head(sorted) THEN <<x>> \o sorted
    ELSE <<Head(sorted)>> \o InsertAscending(Tail(sorted), x)

RECURSIVE SortAscending(_)
SortAscending(seq) ==
    IF seq = << >> THEN << >>
    ELSE InsertAscending(SortAscending(Tail(seq)), Head(seq))

\* mutant: the array sorted where it is
ArrayAfterSortedCopy_inPlace(returns) == SortAscending(returns)

\* [...returns].sort(...) sorts a copy: the caller's array after the call
ArrayAfterSortedCopy(returns) == returns

\* The double 1 - confidenceLevel against the exact difference: 1 - 0.8 is
\* 0.19999999999999996 (below 0.2), 1 - 0.95 is 0.050000000000000044
\* (above 0.05), 1 - 0.5 and 1 - 1 are exact.
OneMinusError(confidenceLevel) ==
    CASE confidenceLevel = 80 -> -1
      [] confidenceLevel = 95 -> 1
      [] OTHER -> 0

\* Math.floor((1 - confidenceLevel) * returns.length) in doubles: where
\* the exact product is a whole number and the double factor lies below
\* the exact one, the double product lies below it too and floors to one
\* less
VaRIndex(confidenceLevel, n) ==
    LET product == (100 - confidenceLevel) * n
    IN  IF product % 100 = 0 /\ n > 0 /\ OneMinusError(confidenceLevel) < 0
        THEN product \div 100 - 1
        ELSE product \div 100

\* calculateVaR in hundredths
calculateVaR(returns, confidenceLevel) ==
    IF Len(returns) = 0 THEN JSNum(0)
    ELSE LET sortedReturns == SortAscending(returns)
             index == VaRIndex(confidenceLevel, Len(returns))
             varValue == sortedReturns[index + 1]
         IN  JSNum(ToFixedSigned(varValue, 10, 1))

\* mutant: the tail taken strictly below the threshold
InTail_strict(ret, varValue) == ret < 10 * varValue

\* ret <= varValue, ret in thousandths and varValue in hundredths
InTail(ret, varValue) == ret <= 10 * varValue

\* calculateCVaR in hundredths
calculateCVaR(returns, confidenceLevel) ==
    IF Len(returns) = 0 THEN JSNum(0)
    ELSE LET varValue == calculateVaR(returns, confidenceLevel)
             tailReturns == SelectSeq(returns, LAMBDA ret : InTail(ret, varValue.v))
         IN  IF Len(tailReturns) = 0 THEN varValue
             ELSE JSNum(ToFixedSigned(SumSeq(tailReturns),
                                      10 * Len(tailReturns), 1))

\* the NAV series calculateMaxDrawdown is called with
MaxNavLen == 3

NavSeries == SeqsUpTo({80, 90, 100, 120}, MaxNavLen)


(***************************************************************************)
(* generateComplianceReport                                                *)
(***************************************************************************)
\* Object.values(complianceData): one entry for each key in insertion
\* order, with what typeof gives for the value and the value's compliant
\* property, which arrays and booleans do not have
ObjectValues(cd) ==
    LET Check(c) == [typeof |-> "object", hasCompliant |-> TRUE,
                     compliant |-> c.compliant]
        Other(type) == [typeof |-> type, hasCompliant |-> FALSE,
                        compliant |-> FALSE]
    IN  <<Check(cd.concentrationLimits), Check(cd.riskDisclosure),
          Check(cd.performanceReporting), Check(cd.feeDisclosure),
          Check(cd.liquidityRequirements), Other("boolean"),
          Other("object"), Other("object")>>

\* mutant: every object among the values counted as a passed check
PassedCheck_anyObject(check) == check.typeof = "object"

\* typeof check === 'object' && check.compliant === true
PassedCheck(check) ==
    check.typeof = "object" /\ check.hasCompliant /\ check.compliant = TRUE

totalChecks == 5

\* the report; reportDate is the clock at the time of the call
generateComplianceReport(fundId, cd, clk) ==
    [fundId |-> fundId,
     reportDate |-> clk,
     complianceStatus |-> IF cd.overallCompliant THEN "COMPLIANT"
                          ELSE "NON-COMPLIANT",
     summary |-> [totalChecks |-> totalChecks,
                  passedChecks |-> Len(SelectSeq(ObjectValues(cd), PassedCheck)),
                  warnings |-> Len(cd.warnings),
                  violations |-> Len(cd.violations)],
     details |-> cd,
     recommendations |-> generateRecommendations(cd)]

\* the fund ids reports are generated for
ReportFundIds == {1, 2}

(***************************************************************************)
(* The database.  initDatabase seeds the funds and the alternative         *)
(* investments with fixed rows and the performance table with one row a    *)
(* month for each fund; POST /check adds compliance reports.               *)
(***************************************************************************)
MaxPerformanceRows == 2
MaxReports == 1

\* funds 1 and 8 of the twenty seeded funds
SeededFunds ==
    {[id |-> 1, fund_name |-> "Scotiabank Canadian Equity Fund",
      fund_type |-> JSStr("Canadian Equity"), inception_date |-> JSDate(2010, 1),
      management_fee |-> JSNum(125), expense_ratio |-> JSNum(185)],
     [id |-> 8, fund_name |-> "Great-West Real Estate Fund",
      fund_type |-> JSStr("Real Estate"), inception_date |-> JSDate(2014, 2),
      management_fee |-> JSNum(155), expense_ratio |-> JSNum(215)]}

\* the seeded allocations of these funds
SeededAlternativeInvestments ==
    <<[fund_id |-> 8, investment_type |-> "REITs", allocation_percentage |-> 80],
      [fund_id |-> 8, investment_type |-> "Direct Real Estate",
       allocation_percentage |-> 20]>>

SeededDatabase ==
    [funds |-> SeededFunds,
     alternative_investments |-> SeededAlternativeInvestments,
     fund_performance |-> << >>,
     compliance_reports |-> << >>]

\* 10000000 + Math.random() * 100000000, in millions
SeedAumValues == {10, 100}

\* the row of a fund's next month: date counts the months from 2021-01
PerformanceRow(database, fundId, aum) ==
    [fund_id |-> fundId,
     date |-> Len(SelectSeq(database.fund_performance,
                            LAMBDA row : row.fund_id = fundId)),
     nav |-> 100,
     total_return |-> 0,
     assets_under_management |-> aum]

\* The value bound to id = ?: a path parameter is text, which SQLite
\* converts to an integer where it is the text of one; a JSON body carries
\* a number.  No row has the id of any other text.
SqlInteger(value) ==
    IF value.t = "number" THEN <<value.v>>
    ELSE CASE value.s = "1" -> <<1>>
           [] value.s = "8" -> <<8>>
           [] OTHER -> << >>

\* db.get('SELECT * FROM funds WHERE id = ?'): the row, or none
SelectFund(database, fundId) ==
    LET found == {f \in database.funds : SqlInteger(fundId) = <<f.id>>}
    IN  IF found = {} THEN << >> ELSE <<CHOOSE f \in found : TRUE>>

\* rows in descending order of date
RECURSIVE InsertDescending(_, _)
InsertDescending(sorted, row) ==
    IF sorted = << >> THEN <<row>>
    ELSE IF row.date >= Head(sorted).date THEN <<row>> \o sorted
    ELSE <<Head(sorted)>> \o InsertDescending(Tail(sorted), row)

RECURSIVE OrderByDateDesc(_)
OrderByDateDesc(rows) ==
    IF rows = << >> THEN << >>
    ELSE InsertDescending(OrderByDateDesc(Tail(rows)), Head(rows))

PerformanceLimit == 12

\* SELECT * FROM fund_performance WHERE fund_id = ? ORDER BY date DESC LIMIT 12
SelectPerformance(database, fundId) ==
    LET rows == OrderByDateDesc(
                    SelectSeq(database.fund_performance,
                              LAMBDA row : SqlInteger(fundId) = <<row.fund_id>>))
    IN  SubSeq(rows, 1, Min(Len(rows), PerformanceLimit))

\* SELECT * FROM alternative_investments WHERE fund_id = ?
SelectAlternativeInvestments(database, fundId) ==
    SelectSeq(database.alternative_investments,
              LAMBDA row : SqlInteger(fundId) = <<row.fund_id>>)

(***************************************************************************)
(* The routers.  A router tries its routes in the order of registration    *)
(* and hands the request to the first whose method and path match; a       *)
(* handler that answers ends the dispatch.                                 *)
(***************************************************************************)
Route(method, path, handler) ==
    [method |-> method, path |-> path, handler |-> handler]

\* the named parameters of the route paths
PathParameters == {":fund_id", ":id"}

complianceRoutes ==
    <<Route("GET", <<":fund_id">>, "GET /compliance/:fund_id"),
      Route("GET", <<"summary">>, "GET /compliance/summary"),
      Route("GET", <<"alerts">>, "GET /compliance/alerts"),
      Route("POST", <<"check">>, "POST /compliance/check"),
      Route("GET", <<"trends">>, "GET /compliance/trends"),
      Route("GET", <<"export", ":fund_id">>, "GET /compliance/export/:fund_id")>>

fundsRoutes ==
    <<Route("GET", << >>, "GET /funds"),
      Route("GET", <<":id">>, "GET /funds/:id"),
      Route("GET", <<":id", "performance">>, "GET /funds/:id/performance"),
      Route("GET", <<":id", "alternative-investments">>,
            "GET /funds/:id/alternative-investments"),
      Route("POST", <<":id", "calculate-pror">>, "POST /funds/:id/calculate-pror"),
      Route("GET", <<"types">>, "GET /funds/types"),
      Route("GET", <<"families">>, "GET /funds/families")>>

\* app.use('/api/funds', ...) and app.use('/api/compliance', ...)
Routers == [funds |-> fundsRoutes, compliance |-> complianceRoutes]

\* app.use('*'): the handler of a request no route has answered
EndpointNotFound == "Endpoint not found"

\* a parameter matches any one segment, a fixed segment only itself
Matches(routePath, path) ==
    /\ Len(routePath) = Len(path)
    /\ \A i \in DOMAIN path :
        routePath[i] \in PathParameters \/ routePath[i] = path[i]

\* the handler that answers a request
Dispatch(req) ==
    LET routes == Routers[req.mount]
        matching == {i \in DOMAIN routes :
                        /\ routes[i].method = req.method
                        /\ Matches(routes[i].path, req.path)}
    IN  IF matching = {} THEN EndpointNotFound
        ELSE routes[CHOOSE i \in matching : \A j \in matching : i <= j].handler

\* The requests: paths of up to two segments over the fixed segments of
\* the routes and the ids of a seeded fund; POST /check carries a body
\* with or without a fund_id, of a seeded fund or of none.
MaxSegments == 2

Segments ==
    {"summary", "alerts", "trends", "check", "export", "types", "families",
     "performance", "1", "8"}

BodyFundIds == {JSUndefined, JSNum(1), JSNum(99)}

Requests ==
    [method : {"GET", "POST"}, mount : {"funds", "compliance"},
     path : SeqsUpTo(Segments, MaxSegments), body : {JSUndefined}]
        \cup [method : {"POST"}, mount : {"compliance"}, path : {<<"check">>},
              body : BodyFundIds]

\* a query that fails, if one does
QueryErrors ==
    {"none", "funds", "fund_performance", "alternative_investments"}

Response(handler, status, body) ==
    [handler |-> handler, status |-> status, body |-> body]

\* res.status(500).json({ error: 'Database error' })
DatabaseError(handler) == Response(handler, 500, [error |-> "Database error"])

\* res.status(404).json({ error: 'Fund not found' })
FundNotFound(handler) == Response(handler, 404, [error |-> "Fund not found"])

\* the handlers modelled with their bodies
ComplianceHandlers ==
    {"GET /compliance/:fund_id", "POST /compliance/check",
     "GET /compliance/export/:fund_id"}

\* the chronologically latest row of a fund, if it has one
LatestPerformance(database, fundId) ==
    LET rows == SelectSeq(database.fund_performance,
                          LAMBDA row : SqlInteger(fundId) = <<row.fund_id>>)
        latest == {i \in DOMAIN rows : \A j \in DOMAIN rows : rows[j].date <= rows[i].date}
    IN  IF rows = << >> THEN << >> ELSE <<rows[CHOOSE i \in latest : TRUE]>>

(***************************************************************************)
(* calculateInformationRatio                                               *)
(***************************************************************************)
\* fundReturns.map((fund, i) => fund - benchmarkReturns[i])
ExcessReturns(fundReturns, benchmarkReturns) ==
    [i \in DOMAIN fundReturns |-> fundReturns[i] - benchmarkReturns[i]]

\* calculateInformationRatio in thousandths.  The tracking error is what
\* calculateVolatility returns, in hundredths, so avgExcessReturn /
\* trackingError is 100 * sum / (n * trackingError).
calculateInformationRatio(fundReturns, benchmarkReturns) ==
    IF Len(fundReturns) # Len(benchmarkReturns.items) \/ Len(fundReturns) = 0
    THEN JSNum(0)
    ELSE LET excessReturns == ExcessReturns(fundReturns, benchmarkReturns.items)
             trackingError == calculateVolatility(excessReturns)
         IN  IF trackingError = 0 THEN JSNum(0)
             ELSE JSNum(ToFixedSigned(100 * SumSeq(excessReturns),
                                      Len(excessReturns) * trackingError, 1000))

\* the pairs calculateInformationRatio is called with
MaxExcessLen == 3

ExcessPairs ==
    {<<f, JSArray(b)>> : f \in SeqsUpTo(ReturnValues, MaxExcessLen),
                         b \in SeqsUpTo(ReturnValues, MaxExcessLen)}

\* The arguments checkCompliance is called with: every fee combination, a
\* complete and an incomplete profile, series of every length, and
\* allocation lists on both sides of the concentration limit.
ComplianceFunds ==
    FundsOver({JSStr("Balanced")}, ManagementFeeValues, ExpenseRatioValues,
              {JSDate(2015, 1)})

\* checkLiquidityRequirements takes the fund profile and does not read it
LiquidityFunds ==
    FundsOver({JSStr("Balanced")}, {JSNum(150)}, {JSNum(100), JSNum(201)},
              {JSDate(2015, 1)})

\* the profiles whose compliance results are turned into recommendations:
\* fees present and missing, within and over each limit
RecommendationFunds ==
    FundsOver({JSStr("Balanced")}, {JSUndefined, JSNum(150), JSNum(251)},
              {JSNum(100), JSNum(301), JSNum(350)}, {JSDate(2015, 1)})

ComplianceSeries == SeriesOver(ObsOver({100}, {0}, {10, 100}))

ComplianceAllocLists == AllocListsOver(AllocsOver({"REITs"}, {20, 25}))

(***************************************************************************)
(* Actions                                                                 *)
(***************************************************************************)
Init ==
    /\ now = StartClock
    /\ op = "none"
    /\ fundData = NotPassed
    /\ performanceData = NotPassed
    /\ alternativeInvestments = NotPassed
    /\ riskScoreArg = NotPassed
    /\ complianceData = NotPassed
    /\ returnsArg = NotPassed
    /\ benchmarkArg = NotPassed
    /\ params = NotPassed
    /\ passed = << >>
    /\ prevResult = << >>
    /\ result = NotPassed
    /\ db = SeededDatabase

\* time passes between two calls
Tick ==
    /\ op = "none"
    /\ \E k \in 1..MaxTicks : now = ClockAfter(k - 1) /\ now' = ClockAfter(k)
    /\ UNCHANGED <<db, op, fundData, performanceData, alternativeInvestments,
                   riskScoreArg, complianceData, returnsArg, benchmarkArg, params, passed,
                   prevResult, result>>

CalculateRiskScore ==
    /\ op = "none"
    /\ \E fd \in Funds :
        /\ op' = "calculateRiskScore"
        /\ fundData' = fd
        /\ performanceData' = NotPassed
        /\ alternativeInvestments' = NotPassed
        /\ riskScoreArg' = NotPassed
        /\ complianceData' = NotPassed
        /\ returnsArg' = NotPassed
        /\ benchmarkArg' = NotPassed
        /\ params' = NotPassed
        /\ passed' = <<fd, NotPassed, NotPassed, NotPassed, NotPassed>>
        /\ prevResult' = << >>
        /\ result' = calculateRiskScore(fd, now)
        /\ UNCHANGED <<now, db>>

GetRiskLevel ==
    /\ op = "none"
    /\ \E score \in RiskScoreArgs :
        /\ op' = "getRiskLevel"
        /\ fundData' = NotPassed
        /\ performanceData' = NotPassed
        /\ alternativeInvestments' = NotPassed
        /\ riskScoreArg' = score
        /\ complianceData' = NotPassed
        /\ returnsArg' = NotPassed
        /\ benchmarkArg' = NotPassed
        /\ params' = NotPassed
        /\ passed' = <<NotPassed, NotPassed, NotPassed, NotPassed, NotPassed>>
        /\ prevResult' = << >>
        /\ result' = getRiskLevel(score)
        /\ UNCHANGED <<now, db>>

CheckRiskDisclosure ==
    /\ op = "none"
    /\ \E fd \in Funds :
        /\ op' = "checkRiskDisclosure"
        /\ fundData' = fd
        /\ performanceData' = NotPassed
        /\ alternativeInvestments' = NotPassed
        /\ riskScoreArg' = NotPassed
        /\ complianceData' = NotPassed
        /\ returnsArg' = NotPassed
        /\ benchmarkArg' = NotPassed
        /\ params' = NotPassed
        /\ passed' = <<fd, NotPassed, NotPassed, NotPassed, NotPassed>>
        /\ prevResult' = << >>
        /\ result' = checkRiskDisclosure(fd, now)
        /\ UNCHANGED <<now, db>>

CheckFeeDisclosure ==
    /\ op = "none"
    /\ \E fd \in Funds :
        /\ op' = "checkFeeDisclosure"
        /\ fundData' = fd
        /\ performanceData' = NotPassed
        /\ alternativeInvestments' = NotPassed
        /\ riskScoreArg' = NotPassed
        /\ complianceData' = NotPassed
        /\ returnsArg' = NotPassed
        /\ benchmarkArg' = NotPassed
        /\ params' = NotPassed
        /\ passed' = <<fd, NotPassed, NotPassed, NotPassed, NotPassed>>
        /\ prevResult' = << >>
        /\ result' = checkFeeDisclosure(fd)
        /\ UNCHANGED <<now, db>>

CheckConcentrationLimits ==
    /\ op = "none"
    /\ \E ai \in AllocLists :
        /\ op' = "checkConcentrationLimits"
        /\ fundData' = NotPassed
        /\ performanceData' = NotPassed
        /\ alternativeInvestments' = ai
        /\ riskScoreArg' = NotPassed
        /\ complianceData' = NotPassed
        /\ returnsArg' = NotPassed
        /\ benchmarkArg' = NotPassed
        /\ params' = NotPassed
        /\ passed' = <<NotPassed, NotPassed, ai, NotPassed, NotPassed>>
        /\ prevResult' = << >>
        /\ result' = checkConcentrationLimits(ai)
        /\ UNCHANGED <<now, db>>

CheckPerformanceReporting ==
    /\ op = "none"
    /\ \E pd \in Series :
        /\ op' = "checkPerformanceReporting"
        /\ fundData' = NotPassed
        /\ performanceData' = pd
        /\ alternativeInvestments' = NotPassed
        /\ riskScoreArg' = NotPassed
        /\ complianceData' = NotPassed
        /\ returnsArg' = NotPassed
        /\ benchmarkArg' = NotPassed
        /\ params' = NotPassed
        /\ passed' = <<NotPassed, pd, NotPassed, NotPassed, NotPassed>>
        /\ prevResult' = << >>
        /\ result' = checkPerformanceReporting(pd)
        /\ UNCHANGED <<now, db>>

CheckLiquidityRequirements ==
    /\ op = "none"
    /\ \E fd \in LiquidityFunds, pd \in Series :
        /\ op' = "checkLiquidityRequirements"
        /\ fundData' = fd
        /\ performanceData' = pd
        /\ alternativeInvestments' = NotPassed
        /\ riskScoreArg' = NotPassed
        /\ complianceData' = NotPassed
        /\ returnsArg' = NotPassed
        /\ benchmarkArg' = NotPassed
        /\ params' = NotPassed
        /\ passed' = <<fd, pd, NotPassed, NotPassed, NotPassed>>
        /\ prevResult' = << >>
        /\ result' = checkLiquidityRequirements(fd, pd)
        /\ UNCHANGED <<now, db>>

CheckCompliance ==
    /\ op = "none"
    /\ \E fd \in ComplianceFunds, pd \in ComplianceSeries,
          ai \in ComplianceAllocLists :
        /\ op' = "checkCompliance"
        /\ fundData' = fd
        /\ performanceData' = pd
        /\ alternativeInvestments' = ai
        /\ riskScoreArg' = NotPassed
        /\ complianceData' = NotPassed
        /\ returnsArg' = NotPassed
        /\ benchmarkArg' = NotPassed
        /\ params' = NotPassed
        /\ passed' = <<fd, pd, ai, NotPassed, NotPassed>>
        /\ prevResult' = << >>
        /\ result' = checkCompliance(fd, pd, ai, now)
        /\ UNCHANGED <<now, db>>

\* generateComplianceReport hands the result of checkCompliance to
\* generateRecommendations
GenerateRecommendations ==
    /\ op = "none"
    /\ \E fd \in RecommendationFunds, pd \in ComplianceSeries,
          ai \in ComplianceAllocLists :
        LET cd == checkCompliance(fd, pd, ai, now)
        IN  /\ op' = "generateRecommendations"
            /\ fundData' = NotPassed
            /\ performanceData' = NotPassed
            /\ alternativeInvestments' = NotPassed
            /\ riskScoreArg' = NotPassed
            /\ complianceData' = cd
            /\ returnsArg' = NotPassed
            /\ benchmarkArg' = NotPassed
            /\ params' = NotPassed
            /\ passed' = <<NotPassed, NotPassed, NotPassed, NotPassed, NotPassed>>
            /\ prevResult' = << >>
            /\ result' = generateRecommendations(cd)
            /\ UNCHANGED <<now, db>>

CheckRegulatoryAlerts ==
    /\ op = "none"
    /\ \E fd \in AlertFunds, pd \in AlertSeries :
        /\ op' = "checkRegulatoryAlerts"
        /\ fundData' = fd
        /\ performanceData' = pd
        /\ alternativeInvestments' = NotPassed
        /\ riskScoreArg' = NotPassed
        /\ complianceData' = NotPassed
        /\ returnsArg' = NotPassed
        /\ benchmarkArg' = NotPassed
        /\ params' = NotPassed
        /\ passed' = <<fd, pd, NotPassed, NotPassed, NotPassed>>
        /\ prevResult' = << >>
        /\ result' = checkRegulatoryAlerts(fd, pd, now)
        /\ UNCHANGED <<now, db>>

CalculatePROR ==
    /\ op = "none"
    /\ \E a \in PRORArgs :
        /\ op' = "calculatePROR"
        /\ fundData' = NotPassed
        /\ performanceData' = NotPassed
        /\ alternativeInvestments' = NotPassed
        /\ riskScoreArg' = NotPassed
        /\ complianceData' = NotPassed
        /\ returnsArg' = NotPassed
        /\ benchmarkArg' = NotPassed
        /\ params' = a
        /\ passed' = <<NotPassed, NotPassed, NotPassed, NotPassed, NotPassed>>
        /\ prevResult' = << >>
        /\ result' = calculatePROR(a.beginningValue, a.endingValue,
                                   a.contributions, a.withdrawals, a.timePeriod)
        /\ UNCHANGED <<now, db>>

\* a call of a FinancialCalculations function on arrays: the function
\* reads them with reduce, filter, map and index access
StatCall(name, rets, bench, par, res) ==
    /\ op' = name
    /\ fundData' = NotPassed
    /\ performanceData' = NotPassed
    /\ alternativeInvestments' = NotPassed
    /\ riskScoreArg' = NotPassed
    /\ complianceData' = NotPassed
    /\ returnsArg' = rets
    /\ benchmarkArg' = bench
    /\ params' = par
    /\ passed' = <<NotPassed, NotPassed, NotPassed, rets, bench>>
    /\ prevResult' = << >>
    /\ result' = res
    /\ UNCHANGED <<now, db>>

CalculateSharpeRatio ==
    /\ op = "none"
    /\ \E r \in StatReturns :
        StatCall("calculateSharpeRatio", r, NotPassed, NotPassed,
                 calculateSharpeRatio(r))

CalculateSortinoRatio ==
    /\ op = "none"
    /\ \E r \in StatReturns :
        StatCall("calculateSortinoRatio", r, NotPassed, NotPassed,
                 calculateSortinoRatio(r))

CalculateBeta ==
    /\ op = "none"
    /\ \E pair \in ReturnPairs :
        StatCall("calculateBeta", pair[1], pair[2], NotPassed,
                 calculateBeta(pair[1], pair[2]))

CalculateTreynorRatio ==
    /\ op = "none"
    /\ \E pair \in ReturnPairs :
        StatCall("calculateTreynorRatio", pair[1], pair[2], NotPassed,
                 calculateTreynorRatio(pair[1], pair[2]))

CalculateJensensAlpha ==
    /\ op = "none"
    /\ \E pair \in ReturnPairs :
        /\ ~AlphaTie(pair[1], pair[2])
        /\ StatCall("calculateJensensAlpha", pair[1], pair[2], NotPassed,
                    calculateJensensAlpha(pair[1], pair[2]))

CalculateRiskAdjustedReturn ==
    /\ op = "none"
    /\ \E r \in StatReturns, riskMeasure \in RiskMeasures :
        StatCall("calculateRiskAdjustedReturn", r, NotPassed,
                 [riskMeasure |-> riskMeasure],
                 calculateRiskAdjustedReturn(r, riskMeasure))

\* the operations that read the clock, directly or through the risk score
ClockReaders == {"calculateRiskScore", "checkCompliance", "checkRegulatoryAlerts"}

\* time passes while the caller holds the result of a call
Elapse ==
    /\ op \in ClockReaders
    /\ prevResult = << >>
    /\ \E k \in 1..MaxTicks : now = ClockAfter(k - 1) /\ now' = ClockAfter(k)
    /\ UNCHANGED <<db, op, fundData, performanceData, alternativeInvestments,
                   riskScoreArg, complianceData, returnsArg, benchmarkArg,
                   params, passed, prevResult, result>>

\* the caller makes the same call again, with the arguments of the first
CallAgain ==
    /\ op \in ClockReaders
    /\ prevResult = << >>
    /\ prevResult' = <<result>>
    /\ result' =
        CASE op = "calculateRiskScore" -> calculateRiskScore(fundData, now)
          [] op = "checkCompliance" ->
                checkCompliance(fundData, performanceData,
                                alternativeInvestments, now)
          [] op = "checkRegulatoryAlerts" ->
                checkRegulatoryAlerts(fundData, performanceData, now)
    /\ UNCHANGED <<db, now, op, fundData, performanceData, alternativeInvestments,
                   riskScoreArg, complianceData, returnsArg, benchmarkArg,
                   params, passed>>

CalculateMaxDrawdown ==
    /\ op = "none"
    /\ \E navValues \in NavSeries :
        StatCall("calculateMaxDrawdown", navValues, NotPassed, NotPassed,
                 JSNum(calculateMaxDrawdown(navValues)))

CalculateVaR ==
    /\ op = "none"
    /\ \E r \in VaRReturns, confidenceLevel \in ConfidenceLevels :
        /\ op' = "calculateVaR"
        /\ fundData' = NotPassed
        /\ performanceData' = NotPassed
        /\ alternativeInvestments' = NotPassed
        /\ riskScoreArg' = NotPassed
        /\ complianceData' = NotPassed
        /\ returnsArg' = ArrayAfterSortedCopy(r)
        /\ benchmarkArg' = NotPassed
        /\ params' = [confidenceLevel |-> confidenceLevel]
        /\ passed' = <<NotPassed, NotPassed, NotPassed, r, NotPassed>>
        /\ prevResult' = << >>
        /\ result' = calculateVaR(r, confidenceLevel)
        /\ UNCHANGED <<now, db>>

CalculateCVaR ==
    /\ op = "none"
    /\ \E r \in VaRReturns, confidenceLevel \in ConfidenceLevels :
        /\ op' = "calculateCVaR"
        /\ fundData' = NotPassed
        /\ performanceData' = NotPassed
        /\ alternativeInvestments' = NotPassed
        /\ riskScoreArg' = NotPassed
        /\ complianceData' = NotPassed
        /\ returnsArg' = ArrayAfterSortedCopy(r)
        /\ benchmarkArg' = NotPassed
        /\ params' = [confidenceLevel |-> confidenceLevel]
        /\ passed' = <<NotPassed, NotPassed, NotPassed, r, NotPassed>>
        /\ prevResult' = << >>
        /\ result' = calculateCVaR(r, confidenceLevel)
        /\ UNCHANGED <<now, db>>

CalculateCorrelation ==
    /\ op = "none"
    /\ \E pair \in ReturnPairs :
        StatCall("calculateCorrelation", pair[1], pair[2], NotPassed,
                 calculateCorrelation(pair[1], pair[2]))

CalculateConcentrationRisk ==
    /\ op = "none"
    /\ \E allocations \in WeightLists :
        StatCall("calculateConcentrationRisk", allocations, NotPassed,
                 NotPassed, JSNum(calculateConcentrationRisk(allocations)))

CalculateAnnualizedReturn ==
    /\ op = "none"
    /\ \E r \in StatReturns, timePeriod \in AnnualizationPeriods :
        StatCall("calculateAnnualizedReturn", r, NotPassed,
                 [timePeriod |-> timePeriod],
                 calculateAnnualizedReturn(r, timePeriod))

CalculateVolatility ==
    /\ op = "none"
    /\ \E r \in StatReturns :
        StatCall("calculateVolatility", r, NotPassed, NotPassed,
                 JSNum(calculateVolatility(r)))

\* the routes hand the result of checkCompliance to generateComplianceReport
GenerateComplianceReport ==
    /\ op = "none"
    /\ \E fundId \in ReportFundIds, fd \in RecommendationFunds,
          pd \in ComplianceSeries, ai \in ComplianceAllocLists :
        LET cd == checkCompliance(fd, pd, ai, now)
        IN  /\ op' = "generateComplianceReport"
            /\ fundData' = NotPassed
            /\ performanceData' = NotPassed
            /\ alternativeInvestments' = NotPassed
            /\ riskScoreArg' = NotPassed
            /\ complianceData' = cd
            /\ returnsArg' = NotPassed
            /\ benchmarkArg' = NotPassed
            /\ params' = fundId
            /\ passed' = <<NotPassed, NotPassed, NotPassed, NotPassed, NotPassed>>
            /\ prevResult' = << >>
            /\ result' = generateComplianceReport(fundId, cd, now)
            /\ UNCHANGED <<now, db>>

\* insertPerformanceData: the next month's row of a fund
InsertPerformance ==
    /\ op = "none"
    /\ Len(db.fund_performance) < MaxPerformanceRows
    /\ \E fund \in db.funds, aum \in SeedAumValues :
        db' = [db EXCEPT !.fund_performance =
                            Append(@, PerformanceRow(db, fund.id, aum))]
    /\ UNCHANGED <<now, op, fundData, performanceData, alternativeInvestments,
                   riskScoreArg, complianceData, returnsArg, benchmarkArg,
                   params, passed, prevResult, result>>

\* a handler has answered req: what it read, what it computed, what it sent
Answer(req, fund, performance, allocations, cd, response) ==
    /\ op' = response.handler
    /\ fundData' = fund
    /\ performanceData' = performance
    /\ alternativeInvestments' = allocations
    /\ riskScoreArg' = NotPassed
    /\ complianceData' = cd
    /\ returnsArg' = NotPassed
    /\ benchmarkArg' = NotPassed
    /\ params' = req
    /\ passed' = <<fund, performance, allocations, NotPassed, NotPassed>>
    /\ prevResult' = << >>
    /\ result' = response
    /\ UNCHANGED now

\* an answer sent before any row was handed to the compliance engine
AnswerEarly(req, response) ==
    Answer(req, NotPassed, NotPassed, NotPassed, NotPassed, response)

\* router.get('/:fund_id') of the compliance router
GetComplianceFundId ==
    /\ op = "none"
    /\ \E req \in Requests, err \in QueryErrors :
        LET handler == "GET /compliance/:fund_id"
            fundId == JSStr(req.path[1])
            fund == SelectFund(db, fundId)
            performance == SelectPerformance(db, fundId)
            allocations == SelectAlternativeInvestments(db, fundId)
            cd == checkCompliance(fund[1], performance, allocations, now)
            complianceReport == generateComplianceReport(req.path[1], cd, now)
            alerts == checkRegulatoryAlerts(fund[1], performance, now)
        IN  /\ Dispatch(req) = handler
            /\ IF err = "funds" THEN AnswerEarly(req, DatabaseError(handler))
               ELSE IF fund = << >> THEN AnswerEarly(req, FundNotFound(handler))
               ELSE IF err # "none" THEN AnswerEarly(req, DatabaseError(handler))
               ELSE Answer(req, fund[1], performance, allocations, cd,
                        Response(handler, 200,
                                 [fund_id |-> req.path[1],
                                  fund_name |-> fund[1].fund_name,
                                  compliance_report |-> complianceReport,
                                  regulatory_alerts |-> alerts,
                                  last_updated |-> now]))
    /\ UNCHANGED db

\* router.post('/check'): the report is stored before the answer is sent
PostComplianceCheck ==
    /\ op = "none"
    /\ \E req \in Requests, err \in QueryErrors :
        LET handler == "POST /compliance/check"
            fund_id == req.body
            fund == SelectFund(db, fund_id)
            performance == SelectPerformance(db, fund_id)
            allocations == SelectAlternativeInvestments(db, fund_id)
            cd == checkCompliance(fund[1], performance, allocations, now)
            complianceReport == generateComplianceReport(fund_id.v, cd, now)
            alerts == checkRegulatoryAlerts(fund[1], performance, now)
            riskScore == calculateRiskScore(fund[1], now)
            concentrationWarnings ==
                [i \in DOMAIN cd.concentrationLimits.violations |->
                    <<cd.concentrationLimits.violations[i].type,
                      cd.concentrationLimits.violations[i].allocation>>]
            stored == [fund_id |-> fund_id.v,
                       report_date |-> now,
                       iiroc_compliant |-> IF cd.overallCompliant THEN 1 ELSE 0,
                       regulatory_notes |-> complianceReport,
                       risk_score |-> riskScore,
                       concentration_warnings |-> concentrationWarnings]
        IN  /\ Dispatch(req) = handler
            /\ IF ~NumTruthy(fund_id)
               THEN /\ AnswerEarly(req, Response(handler, 400,
                                        [error |-> "fund_id is required"]))
                    /\ UNCHANGED db
               ELSE IF err = "funds"
               THEN AnswerEarly(req, DatabaseError(handler)) /\ UNCHANGED db
               ELSE IF fund = << >>
               THEN AnswerEarly(req, FundNotFound(handler)) /\ UNCHANGED db
               ELSE IF err # "none"
               THEN AnswerEarly(req, DatabaseError(handler)) /\ UNCHANGED db
               ELSE /\ Len(db.compliance_reports) < MaxReports
                    /\ db' = [db EXCEPT !.compliance_reports = Append(@, stored)]
                    /\ Answer(req, fund[1], performance, allocations, cd,
                           Response(handler, 200,
                               [fund_id |-> fund_id.v,
                                fund_name |-> fund[1].fund_name,
                                compliance_check |->
                                    [status |-> IF cd.overallCompliant
                                                THEN "COMPLIANT"
                                                ELSE "NON_COMPLIANT",
                                     risk_score |-> riskScore,
                                     risk_level |-> getRiskLevel(riskScore),
                                     checks_passed |->
                                         complianceReport.summary.passedChecks,
                                     total_checks |->
                                         complianceReport.summary.totalChecks,
                                     warnings |-> cd.warnings,
                                     violations |-> cd.violations],
                                compliance_report |-> complianceReport,
                                regulatory_alerts |-> alerts,
                                recommendations |-> complianceReport.recommendations,
                                check_date |-> now]))

\* router.get('/export/:fund_id'); no request of the model asks for a
\* format other than json
GetComplianceExport ==
    /\ op = "none"
    /\ \E req \in Requests, err \in QueryErrors :
        LET handler == "GET /compliance/export/:fund_id"
            fundId == JSStr(req.path[2])
            fund == SelectFund(db, fundId)
            performance == SelectPerformance(db, fundId)
            allocations == SelectAlternativeInvestments(db, fundId)
            cd == checkCompliance(fund[1], performance, allocations, now)
            complianceReport == generateComplianceReport(req.path[2], cd, now)
            alerts == checkRegulatoryAlerts(fund[1], performance, now)
        IN  /\ Dispatch(req) = handler
            /\ IF err = "funds" THEN AnswerEarly(req, DatabaseError(handler))
               ELSE IF fund = << >> THEN AnswerEarly(req, FundNotFound(handler))
               ELSE IF err # "none" THEN AnswerEarly(req, DatabaseError(handler))
               ELSE Answer(req, fund[1], performance, allocations, cd,
                        Response(handler, 200,
                            [fund_information |->
                                 [id |-> fund[1].id,
                                  name |-> fund[1].fund_name,
                                  type |-> fund[1].fund_type,
                                  inception_date |-> fund[1].inception_date,
                                  management_fee |-> fund[1].management_fee,
                                  expense_ratio |-> fund[1].expense_ratio],
                             compliance_report |-> complianceReport,
                             regulatory_alerts |-> alerts,
                             performance_summary |->
                                 [data_points |-> Len(performance),
                                  latest_aum |->
                                      IF Len(performance) > 0
                                      THEN <<performance[1].assets_under_management>>
                                      ELSE << >>],
                             alternative_investments |-> allocations,
                             export_date |-> now]))
    /\ UNCHANGED db

\* router.get('/:id') of the funds router: the fund with its latest row
GetFundId ==
    /\ op = "none"
    /\ \E req \in Requests, err \in {"none", "funds", "fund_performance"} :
        LET handler == "GET /funds/:id"
            fundId == JSStr(req.path[1])
            fund == SelectFund(db, fundId)
            latest == LatestPerformance(db, fundId)
        IN  /\ Dispatch(req) = handler
            /\ IF err = "funds" THEN AnswerEarly(req, DatabaseError(handler))
               ELSE IF fund = << >> THEN AnswerEarly(req, FundNotFound(handler))
               ELSE IF err # "none" THEN AnswerEarly(req, DatabaseError(handler))
               ELSE AnswerEarly(req,
                        Response(handler, 200,
                            [id |-> fund[1].id,
                             fund_name |-> fund[1].fund_name,
                             latest_aum |->
                                 IF latest = << >> THEN << >>
                                 ELSE <<latest[1].assets_under_management>>,
                             total_fees |-> JSAdd(fund[1].management_fee,
                                                  fund[1].expense_ratio),
                             fund_age |-> JSSub(CurrentFullYear(now),
                                                InceptionFullYear(
                                                    fund[1].inception_date))]))
    /\ UNCHANGED db

\* Any other request: the routers pick the handler, or no route matches and
\* app.use('*') answers 404.  Of these handlers only the identity is kept.
RouteRequest ==
    /\ op = "none"
    /\ \E req \in Requests :
        /\ Dispatch(req) \notin ComplianceHandlers \cup {"GET /funds/:id"}
        /\ AnswerEarly(req,
               IF Dispatch(req) = EndpointNotFound
               THEN Response(EndpointNotFound, 404, [error |-> EndpointNotFound])
               ELSE Response(Dispatch(req), 200, << >>))
    /\ UNCHANGED db

CalculateInformationRatio ==
    /\ op = "none"
    /\ \E pair \in ExcessPairs :
        StatCall("calculateInformationRatio", pair[1], pair[2], NotPassed,
                 calculateInformationRatio(pair[1], pair[2]))

\* the caller has taken the returned value; the engine keeps nothing of the call
Return ==
    /\ op # "none"
    /\ op' = "none"
    /\ fundData' = NotPassed
    /\ performanceData' = NotPassed
    /\ alternativeInvestments' = NotPassed
    /\ riskScoreArg' = NotPassed
    /\ complianceData' = NotPassed
    /\ returnsArg' = NotPassed
    /\ benchmarkArg' = NotPassed
    /\ params' = NotPassed
    /\ passed' = << >>
    /\ prevResult' = << >>
    /\ result' = NotPassed
    /\ UNCHANGED <<now, db>>

Next ==
    \/ Tick
    \/ Return
    \/ CalculateRiskScore
    \/ GetRiskLevel
    \/ CheckRiskDisclosure
    \/ CheckFeeDisclosure
    \/ CheckConcentrationLimits
    \/ CheckPerformanceReporting
    \/ CheckLiquidityRequirements
    \/ CheckCompliance
    \/ GenerateRecommendations
    \/ CheckRegulatoryAlerts
    \/ GenerateComplianceReport

Spec == Init /\ [][Next]_vars

\* the statistics engine: FinancialCalculations on its own
NextStats ==
    \/ Return
    \/ CalculatePROR
    \/ CalculateSharpeRatio
    \/ CalculateSortinoRatio
    \/ CalculateBeta
    \/ CalculateTreynorRatio
    \/ CalculateJensensAlpha
    \/ CalculateRiskAdjustedReturn
    \/ CalculateMaxDrawdown
    \/ CalculateVaR
    \/ CalculateCVaR
    \/ CalculateCorrelation
    \/ CalculateConcentrationRisk
    \/ CalculateAnnualizedReturn
    \/ CalculateVolatility
    \/ CalculateInformationRatio

SpecStats == Init /\ [][NextStats]_vars

\* the compliance engine called twice with the same arguments
NextRepeat ==
    \/ Tick
    \/ Return
    \/ CalculateRiskScore
    \/ CheckCompliance
    \/ CheckRegulatoryAlerts
    \/ Elapse
    \/ CallAgain

SpecRepeat == Init /\ [][NextRepeat]_vars

\* both engines
NextEngine ==
    \/ Next
    \/ NextStats

SpecEngine == Init /\ [][NextEngine]_vars

\* the routes of the funds and the compliance routers over the database
NextRoutes ==
    \/ Return
    \/ InsertPerformance
    \/ GetComplianceFundId
    \/ PostComplianceCheck
    \/ GetComplianceExport
    \/ GetFundId
    \/ RouteRequest

SpecRoutes == Init /\ [][NextRoutes]_vars

(***************************************************************************)
(* Properties                                                              *)
(***************************************************************************)
Range(seq) == {seq[i] : i \in DOMAIN seq}

NoDuplicates(seq) == Cardinality(Range(seq)) = Len(seq)

\* the property is on the profile, whatever its value
Present(x) == x.t # "undefined"

\* C1: checkCompliance returns overallCompliant = true exactly when the
\* ConcentrationLimits check and the FeeDisclosure check are both compliant;
\* the three soft checks have no say in it.
C1_OverallIsHardChecks ==
    op = "checkCompliance" =>
        result.overallCompliant =
            (result.concentrationLimits.compliant /\ result.feeDisclosure.compliant)

\* every soft check failed and the verdict is still compliant
C1_Witness ==
    /\ op = "checkCompliance"
    /\ ~result.riskDisclosure.compliant
    /\ ~result.performanceReporting.compliant
    /\ ~result.liquidityRequirements.compliant
    /\ result.overallCompliant

\* C2: violations holds exactly the names of the failed hard checks and
\* warnings exactly the names of the failed soft checks, each name once and
\* in one list only.
C2_ListsNameFailedChecks ==
    op = "checkCompliance" =>
        LET NameIf(failed, name) == IF failed THEN {name} ELSE {}
        IN  /\ Range(result.violations) =
                   NameIf(~result.concentrationLimits.compliant, "Concentration Limits")
                     \cup NameIf(~result.feeDisclosure.compliant, "Fee Disclosure")
            /\ Range(result.warnings) =
                   NameIf(~result.riskDisclosure.compliant, "Risk Disclosure")
                     \cup NameIf(~result.performanceReporting.compliant,
                                 "Performance Reporting")
                     \cup NameIf(~result.liquidityRequirements.compliant,
                                 "Liquidity Requirements")
            /\ NoDuplicates(result.violations)
            /\ NoDuplicates(result.warnings)
            /\ Range(result.violations) \cap Range(result.warnings) = {}

\* a hard and two soft checks failed, a hard and a soft one passed
C2_Witness ==
    /\ op = "checkCompliance"
    /\ result.violations = <<"Fee Disclosure">>
    /\ result.warnings = <<"Risk Disclosure", "Liquidity Requirements">>
    /\ result.concentrationLimits.compliant
    /\ result.performanceReporting.compliant

\* C3: checkFeeDisclosure reports one message for each breached limit
\* (management fee > 2.5, expense ratio > 3.0, their sum > 4.0), and is
\* compliant exactly when none is breached; fees of 3.0 and 3.5 give three
\* messages and overallCompliant = false.
C3_FeeBreaches(fd) ==
    LET mf == fd.management_fee
        er == fd.expense_ratio
    IN  (IF IsNum(mf) /\ mf.v > 250 THEN {"Management fee"} ELSE {})
          \cup (IF IsNum(er) /\ er.v > 300 THEN {"Expense ratio"} ELSE {})
          \cup (IF IsNum(mf) /\ IsNum(er) /\ mf.v + er.v > 400
                THEN {"Total fees"} ELSE {})

C3_FeeMessagePerBreach ==
    /\ op = "checkFeeDisclosure" =>
           /\ {m.kind : m \in Range(result.violations)} = C3_FeeBreaches(fundData)
           /\ Len(result.violations) = Cardinality(C3_FeeBreaches(fundData))
           /\ result.compliant = (C3_FeeBreaches(fundData) = {})
    /\ (/\ op = "checkCompliance"
        /\ fundData.management_fee = JSNum(300)
        /\ fundData.expense_ratio = JSNum(350)) =>
           /\ Len(result.feeDisclosure.violations) = 3
           /\ ~result.overallCompliant

\* fees on the limits, 2.5 and 1.5, are allowed
C3_Witness ==
    /\ op = "checkFeeDisclosure"
    /\ fundData.management_fee = JSNum(250)
    /\ fundData.expense_ratio = JSNum(150)
    /\ result.compliant

\* C4: checkConcentrationLimits is compliant exactly when no record has an
\* allocation above 20, and violations holds one entry for each offending
\* record, in input order, with its type, its allocation and limit = 20.
C4_ConcentrationViolations ==
    op = "checkConcentrationLimits" =>
        LET ai == alternativeInvestments
            offending == {i \in DOMAIN ai : ai[i].allocation_percentage > 20}
            \* the position the k-th offending record has in the input
            Nth(k) == CHOOSE i \in offending :
                          Cardinality({j \in offending : j <= i}) = k
        IN  /\ result.compliant = (offending = {})
            /\ Len(result.violations) = Cardinality(offending)
            /\ \A k \in DOMAIN result.violations :
                   result.violations[k] =
                       [type |-> ai[Nth(k)].investment_type,
                        allocation |-> ai[Nth(k)].allocation_percentage,
                        limit |-> 20]

\* a record on the limit passes, the record above it is reported
C4_Witness ==
    /\ op = "checkConcentrationLimits"
    /\ Len(alternativeInvestments) >= 2
    /\ \E i \in DOMAIN alternativeInvestments :
           alternativeInvestments[i].allocation_percentage = 20
    /\ Len(result.violations) = 1
    /\ result.violations[1].allocation = 25

\* C5 (as claimed): checkRiskDisclosure is compliant exactly when the four
\* fields are on the profile, whatever their values, and missingDisclosures
\* lists exactly the absent fields.
C5_CompliantIffAllPresent ==
    op = "checkRiskDisclosure" =>
        LET absent == {f \in Range(requiredDisclosures) : ~Present(fundData[f])}
        IN  /\ result.compliant = (absent = {})
            /\ Range(result.missingDisclosures) = absent

\* C6: checkPerformanceReporting is compliant exactly when the series has
\* at least 12 observations; an empty series fails with the reason 'No
\* performance data available', a shorter non-empty one fails without a
\* reason and reports dataPoints and hasRequiredPeriods = false.
C6_PerformanceReporting ==
    op = "checkPerformanceReporting" =>
        LET n == Len(performanceData)
        IN  /\ result.compliant = (n >= 12)
            /\ n = 0 => /\ "reason" \in DOMAIN result
                        /\ result.reason = "No performance data available"
            /\ n > 0 => /\ "reason" \notin DOMAIN result
                        /\ result.dataPoints = n
                        /\ result.hasRequiredPeriods = (n >= 12)

\* exactly twelve observations pass
C6_Witness ==
    /\ op = "checkPerformanceReporting"
    /\ Len(performanceData) = 12
    /\ result.compliant

\* C7: checkLiquidityRequirements is compliant exactly when the last
\* observation's AUM is at least 10,000,000 and that AUM divided by 1% of
\* the mean AUM of the series is at most 30; an empty series is
\* non-compliant with a reason and no figures.
C7_Liquidity ==
    op = "checkLiquidityRequirements" =>
        LET pd == performanceData
            n == Len(pd)
            recent == pd[n].assets_under_management
            total == SumSeq([i \in DOMAIN pd |-> pd[i].assets_under_management])
        IN  /\ n = 0 => /\ ~result.compliant
                        /\ "reason" \in DOMAIN result
                        /\ DOMAIN result = {"compliant", "reason"}
            \* recent / (0.01 * total / n) <= 30
            /\ n > 0 => result.compliant =
                            (recent >= 10 /\ 100 * n * recent <= 30 * total)

\* on both limits: AUM of 10,000,000 and a ratio of exactly 30
C7_Witness ==
    /\ op = "checkLiquidityRequirements"
    /\ Len(performanceData) = 3
    /\ performanceData[1].assets_under_management = 45
    /\ performanceData[3].assets_under_management = 10
    /\ result.compliant

\* C8 (as claimed): calculateRiskScore returns an integer between 1 and 10
\* for every fund profile.
C8_ScoreBetween1And10 ==
    op = "calculateRiskScore" => (IsNum(result) /\ result.v \in 1..10)

\* C9 (as claimed): calculateRiskScore = min(10, base + feeAddOn + ageAddOn),
\* with base from the fund-type table (any other type 5), feeAddOn from the
\* expense ratio and ageAddOn from the fund's age: the time from the
\* inception date to the day of the call.  It is stated for the profiles
\* that carry an inception date and whose fund type is not the name of a
\* member of Object.prototype (for those the score is not a number, C8).
C9_Base(fd) ==
    LET ty == fd.fund_type
    IN  CASE ty = JSStr("Fixed Income") -> 2
          [] ty = JSStr("Balanced") -> 4
          [] ty = JSStr("Canadian Equity") -> 6
          [] ty = JSStr("Global Equity") -> 7
          [] ty = JSStr("Real Estate") -> 7
          [] ty = JSStr("Sector") -> 8
          [] ty = JSStr("Alternative") -> 9
          [] OTHER -> 5

C9_FeeAddOn(fd) ==
    LET er == fd.expense_ratio
    IN  IF IsNum(er) /\ er.v > 200 THEN 2
        ELSE IF IsNum(er) /\ er.v > 150 THEN 1
        ELSE 0

\* the fund's age in months
C9_AgeInMonths(fd, clk) ==
    12 * (clk.year - fd.inception_date.year) + (clk.month - fd.inception_date.month)

C9_AgeAddOn(fd, clk) ==
    IF C9_AgeInMonths(fd, clk) < 3 * 12 THEN 2
    ELSE IF C9_AgeInMonths(fd, clk) < 5 * 12 THEN 1
    ELSE 0

C9_ScoreFormula ==
    (/\ op = "calculateRiskScore"
     /\ Present(fundData.inception_date)
     /\ PropertyKey(fundData.fund_type) \notin ObjectPrototypeNames) =>
        result = JSNum(Min(10, C9_Base(fundData) + C9_FeeAddOn(fundData)
                                 + C9_AgeAddOn(fundData, now)))

\* C10: getRiskLevel maps a score <= 3 to 'Low', <= 5 to 'Low-Medium',
\* <= 7 to 'Medium', <= 9 to 'Medium-High' and any other to 'High', and
\* the riskLevel of a checkRiskDisclosure result is the bucket of its
\* riskScore.
C10_Bucket(score) ==
    CASE IsNum(score) /\ score.v \in 0..3 -> "Low"
      [] IsNum(score) /\ score.v \in 4..5 -> "Low-Medium"
      [] IsNum(score) /\ score.v \in 6..7 -> "Medium"
      [] IsNum(score) /\ score.v \in 8..9 -> "Medium-High"
      [] OTHER -> "High"

C10_RiskLevelBuckets ==
    /\ op = "getRiskLevel" => result = C10_Bucket(riskScoreArg)
    /\ op = "checkRiskDisclosure" => result.riskLevel = C10_Bucket(result.riskScore)

\* a disclosure result whose score sits on a bucket boundary
C10_Witness ==
    /\ op = "checkRiskDisclosure"
    /\ result.riskScore = JSNum(9)
    /\ result.riskLevel = "Medium-High"

\* C11: generateRecommendations emits exactly one recommendation for each
\* failed check among concentration limits (HIGH, 30 days), fee disclosure
\* (HIGH, 15 days), risk disclosure (MEDIUM, 60 days) and liquidity (MEDIUM,
\* 90 days), in that order, and none for a check that passed; every HIGH
\* recommendation names an entry of violations and every MEDIUM one an entry
\* of warnings.
C11_Table ==
    <<[check |-> "concentrationLimits", entry |-> "Concentration Limits",
       priority |-> "HIGH", category |-> "Concentration Limits",
       deadline |-> "30 days"],
      [check |-> "feeDisclosure", entry |-> "Fee Disclosure",
       priority |-> "HIGH", category |-> "Fee Disclosure",
       deadline |-> "15 days"],
      [check |-> "riskDisclosure", entry |-> "Risk Disclosure",
       priority |-> "MEDIUM", category |-> "Risk Disclosure",
       deadline |-> "60 days"],
      [check |-> "liquidityRequirements", entry |-> "Liquidity Requirements",
       priority |-> "MEDIUM", category |-> "Liquidity",
       deadline |-> "90 days"]>>

C11_RecommendationPerFailedCheck ==
    op = "generateRecommendations" =>
        LET failed == SelectSeq(C11_Table,
                        LAMBDA row : ~complianceData[row.check].compliant)
        IN  /\ Len(result) = Len(failed)
            /\ \A i \in DOMAIN failed :
                /\ result[i].priority = failed[i].priority
                /\ result[i].category = failed[i].category
                /\ result[i].deadline = failed[i].deadline
                /\ failed[i].priority = "HIGH" =>
                        Includes(complianceData.violations, failed[i].entry)
                /\ failed[i].priority = "MEDIUM" =>
                        Includes(complianceData.warnings, failed[i].entry)

C11_Witness ==
    /\ op = "generateRecommendations"
    /\ Len(result) = 4
    /\ ~complianceData.performanceReporting.compliant

\* C12: checkRegulatoryAlerts emits a HIGH_VOLATILITY alert of severity
\* WARNING exactly when the series volatility is > 25, a HIGH_FEES alert of
\* severity WARNING exactly when the expense ratio is > 2.0, and a NEW_FUND
\* alert of severity INFO exactly when the fund's age is under 1 year, each
\* independently of the other two.
C12_HasAlert(type, severity) ==
    \E i \in DOMAIN result : result[i].type = type /\ result[i].severity = severity

\* the population variance of the total returns exceeds 25 squared
C12_VolatilityOver25(pd) ==
    LET x == MapField(pd, "total_return")
        n == Len(x)
    IN  n > 0 /\ n * SumSquares(x) - SumSeq(x) * SumSeq(x) > 625 * n * n

C12_AgeInMonths(fd, clk) ==
    12 * (clk.year - fd.inception_date.year) + (clk.month - fd.inception_date.month)

C12_AlertsByThreshold ==
    (op = "checkRegulatoryAlerts" /\ Present(fundData.inception_date)) =>
        /\ C12_HasAlert("HIGH_VOLATILITY", "WARNING")
                <=> C12_VolatilityOver25(performanceData)
        /\ C12_HasAlert("HIGH_FEES", "WARNING")
                <=> (IsNum(fundData.expense_ratio) /\ fundData.expense_ratio.v > 200)
        /\ C12_HasAlert("NEW_FUND", "INFO")
                <=> C12_AgeInMonths(fundData, now) < 12
        /\ \A i \in DOMAIN result :
                result[i].type \in {"HIGH_VOLATILITY", "HIGH_FEES", "NEW_FUND"}
        /\ NoDuplicates([i \in DOMAIN result |-> result[i].type])

\* C13: calculatePROR raises an error, and returns no value, exactly when
\* beginningValue <= 0 or the denominator beginningValue + contributions *
\* periodMonths / 12 is <= 0; for every other numeric input it returns a
\* value.
C13_RaisesOnNonPositive ==
    op = "calculatePROR" =>
        /\ Threw(result) <=>
                \/ params.beginningValue <= 0
                \/ 12 * params.beginningValue
                        + params.contributions * params.timePeriod <= 0
        /\ ~Threw(result) => result.t = "number"

\* the denominator is exactly zero although the beginning value is positive
C13_Witness ==
    /\ op = "calculatePROR"
    /\ Threw(result)
    /\ params.beginningValue > 0
    /\ 12 * params.beginningValue + params.contributions * params.timePeriod = 0

\* C14: when it does not raise, calculatePROR returns ((endingValue -
\* beginningValue - (contributions - withdrawals)) / (beginningValue +
\* contributions * periodMonths / 12)) * 100 rounded to 2 decimals; in
\* particular PROR(10000, 11000, 1000, 0, 12) = 0.00.
C14_Gain == params.endingValue - params.beginningValue
                - (params.contributions - params.withdrawals)

C14_Denominator12 == 12 * params.beginningValue
                        + params.contributions * params.timePeriod

\* result.v hundredths is a nearest hundredth of 1200 * gain / denominator12
C14_RoundedFormula ==
    (op = "calculatePROR" /\ ~Threw(result)) =>
        /\ 2 * Abs(C14_Denominator12 * result.v - 120000 * C14_Gain)
                <= C14_Denominator12
        /\ params = [beginningValue |-> 10000, endingValue |-> 11000,
                     contributions |-> 1000, withdrawals |-> 0,
                     timePeriod |-> 12] => result.v = 0

C14_Witness ==
    /\ op = "calculatePROR"
    /\ ~Threw(result)
    /\ params.withdrawals > 0
    /\ result.v < 0
    /\ (120000 * C14_Gain) % C14_Denominator12 # 0

\* C15: every statistics function over sequences returns a defined numeric
\* default (0, or 1 for beta), never raises and never yields a not-a-number
\* result when given empty sequences, sequences of mismatched length, or
\* data with a zero-variance denominator.
C15_OneArray == {"calculateSharpeRatio", "calculateSortinoRatio",
                 "calculateRiskAdjustedReturn"}

C15_TwoArrays == {"calculateBeta", "calculateTreynorRatio",
                  "calculateJensensAlpha"}

C15_Degenerate ==
    \/ /\ op \in C15_OneArray
       /\ Len(returnsArg) = 0 \/ ScaledVariance(returnsArg) = 0
    \/ /\ op \in C15_TwoArrays
       /\ \/ Len(returnsArg) = 0
          \/ Len(benchmarkArg.items) = 0
          \/ Len(returnsArg) # Len(benchmarkArg.items)
          \/ ScaledVariance(benchmarkArg.items) = 0

C15_SafeDefaults ==
    C15_Degenerate =>
        /\ ~Threw(result)
        /\ IsNum(result)
        /\ op \in {"calculateSharpeRatio", "calculateSortinoRatio"} => result.v = 0
        /\ op = "calculateBeta" => result.v = 1000

\* C16: any two calls of checkCompliance, calculateRiskScore or
\* checkRegulatoryAlerts with the same fund profile, series and allocations
\* return identical results, whenever the two calls are made.
C16_SameArgumentsSameResult ==
    (op \in ClockReaders /\ Len(prevResult) = 1) => result = prevResult[1]

\* C17: no engine operation modifies its arguments: after checkCompliance,
\* checkRegulatoryAlerts or any statistics function (calculateVaR and
\* calculateCVaR, which sort the returns, included), the fund profile, the
\* series and every numeric sequence passed in hold the same values in the
\* same order as before the call.
C17_ArgumentsUnchanged ==
    op # "none" =>
        <<fundData, performanceData, alternativeInvestments, returnsArg,
          benchmarkArg>> = passed

\* calculateVaR has sorted an array that was passed unsorted
C17_Witness ==
    /\ op = "calculateVaR"
    /\ Len(returnsArg) >= 2
    /\ \E i \in 1..(Len(passed[4]) - 1) : passed[4][i] > passed[4][i + 1]
    /\ result.v # 0

\* C18: calculateMaxDrawdown returns, as a percentage, the largest value of
\* (peak - v) / peak over the sequence, where peak is the maximum of the
\* values up to and including the current position; it is 0 for an empty
\* sequence, a single-element sequence and any sequence with no decline,
\* and 20.00 for [100, 90, 80].
C18_Peak(navValues, i) ==
    CHOOSE p \in {navValues[j] : j \in 1..i} :
        \A j \in 1..i : navValues[j] <= p

C18_Drawdowns(navValues) ==
    {ToFixed2(100 * (C18_Peak(navValues, i) - navValues[i]),
              C18_Peak(navValues, i)) : i \in DOMAIN navValues}

C18_Largest(set) == CHOOSE m \in set : \A x \in set : x <= m

C18_NoDecline(navValues) ==
    \A i \in 1..(Len(navValues) - 1) : navValues[i] <= navValues[i + 1]

C18_LargestDeclineFromPeak ==
    op = "calculateMaxDrawdown" =>
        /\ IsNum(result)
        /\ result.v = C18_Largest(C18_Drawdowns(returnsArg) \cup {0})
        /\ C18_NoDecline(returnsArg) => result.v = 0
        /\ returnsArg = <<100, 90, 80>> => result.v = 2000

\* a decline measured from a peak that is not the first value
C18_Witness ==
    /\ op = "calculateMaxDrawdown"
    /\ Len(returnsArg) = 3
    /\ returnsArg[1] < returnsArg[2]
    /\ returnsArg[3] < returnsArg[1]
    /\ result.v > 0

\* C19: for every non-empty sequence of n returns and every confidence c
\* with 0 < c <= 1, calculateVaR returns the element at index
\* floor((1 - c) * n) of the returns sorted in ascending order (for c = 0.95
\* and n < 20 the minimum return), and it returns 0 for an empty sequence.
C19_Below(seq, x) == Cardinality({i \in DOMAIN seq : seq[i] < x})

C19_AtOrBelow(seq, x) == Cardinality({i \in DOMAIN seq : seq[i] <= x})

\* the element at index k (from 0) of seq in ascending order
C19_ElementAt(seq, k) ==
    CHOOSE x \in Range(seq) : C19_Below(seq, x) <= k /\ k < C19_AtOrBelow(seq, x)

C19_ElementAtFloorIndex ==
    op = "calculateVaR" =>
        IF Len(returnsArg) = 0 THEN result = JSNum(0)
        ELSE /\ result = JSNum(ToFixedSigned(
                    C19_ElementAt(returnsArg,
                        ((100 - params.confidenceLevel) * Len(returnsArg)) \div 100),
                    10, 1))
             /\ params.confidenceLevel = 95 =>
                    result = JSNum(ToFixedSigned(C19_ElementAt(returnsArg, 0), 10, 1))

\* C20: calculateCVaR returns the mean of all returns that are at or below
\* the VaR threshold for the same confidence level, and returns the VaR
\* value itself only when no return is at or below that threshold.
C20_Threshold == calculateVaR(returnsArg, params.confidenceLevel).v

C20_Tail == {i \in DOMAIN returnsArg : returnsArg[i] <= 10 * C20_Threshold}

RECURSIVE C20_SumOver(_)
C20_SumOver(indices) ==
    IF indices = {} THEN 0
    ELSE LET i == CHOOSE j \in indices : TRUE
         IN  returnsArg[i] + C20_SumOver(indices \ {i})

C20_MeanOfTail ==
    (op = "calculateCVaR" /\ Len(returnsArg) > 0) =>
        /\ IsNum(result)
        /\ C20_Tail = {} => result.v = C20_Threshold
        /\ C20_Tail # {} =>
                2 * Abs(10 * Cardinality(C20_Tail) * result.v - C20_SumOver(C20_Tail))
                    <= 10 * Cardinality(C20_Tail)

\* the threshold, rounded to two decimals, lies below every return
C20_Witness ==
    /\ op = "calculateCVaR"
    /\ Len(returnsArg) > 1
    /\ C20_Tail = {}
    /\ result.v = C20_Threshold

\* C21: calculateBeta returns the covariance of the two sequences divided by
\* the variance of the benchmark sequence, returns 1 when the sequences
\* differ in length, are empty, or the benchmark variance is 0, and
\* Beta(r, r) = 1 for every non-constant sequence r.
C21_Covariance(f, b) == Len(f) * SumProducts(f, b) - SumSeq(f) * SumSeq(b)

C21_Default(f, b) ==
    Len(f) # Len(b) \/ Len(f) = 0 \/ ScaledVariance(b) = 0

C23_NormalizedSquares ==
    op = "calculateConcentrationRisk" =>
        LET a == returnsArg
            total == SumSeq(a)
        IN  /\ IsNum(result)
            /\ (Len(a) = 0 \/ total = 0) => result.v = 0
            /\ total # 0 =>
                    2 * Abs(total * total * result.v - 10000 * SumSquares(a))
                        <= total * total
            /\ a = <<100>> => result.v = 10000
            /\ a = <<25, 25, 25, 25>> => result.v = 2500
            /\ \A factor \in ScaleFactors :
                    JSNum(calculateConcentrationRisk(Scaled(a, factor))) = result

C23_Witness ==
    /\ op = "calculateConcentrationRisk"
    /\ Len(returnsArg) = 3
    /\ returnsArg[1] # returnsArg[2]
    /\ SumSeq(returnsArg) # 100
    /\ result.v \notin {0, 10000}

\* C24: calculateAnnualizedReturn compounds the period returns: it takes the
\* product over all periods of (1 + r / 100), raises that product to the
\* power 12 / periodCount and subtracts 1, reported as a percentage rounded
\* to 2 decimals. Stated for the calls in which the sequence has at most
\* two returns and the number of factors of the power is at most two.
RECURSIVE C24_Product(_)
C24_Product(seq) ==
    IF seq = << >> THEN 1 ELSE (100 + Head(seq)) * C24_Product(Tail(seq))

C24_CompoundsReturns ==
    (/\ op = "calculateAnnualizedReturn"
     /\ Len(returnsArg) * (12 \div params.timePeriod) <= 2) =>
        LET k == 12 \div params.timePeriod
            num == Power(C24_Product(returnsArg), k)
            den == Power(100, Len(returnsArg) * k)
        IN  /\ IsNum(result)
            /\ 2 * Abs(den * (result.v + 10000) - 10000 * num) <= den

\* C25: calculateVolatility is the population standard deviation of the
\* sequence: it is >= 0 for every sequence, and exactly 0 for the empty
\* sequence and for every single-element sequence.
C25_PopulationStandardDeviation ==
    op = "calculateVolatility" =>
        LET n == Len(returnsArg)
            q == ScaledVariance(returnsArg)
            v == result.v
        IN  /\ IsNum(result)
            /\ v >= 0
            /\ n <= 1 => v = 0
            /\ n >= 1 =>
                /\ 40000 * q <= (2 * v + 1) * (2 * v + 1) * n * n
                /\ v >= 1 => (2 * v - 1) * (2 * v - 1) * n * n <= 40000 * q

C25_Witness ==
    /\ op = "calculateVolatility"
    /\ Len(returnsArg) = 1
    /\ returnsArg[1] # 0
    /\ result.v = 0

\* C29: in every report built from a checkCompliance result the passed
\* checks, the warnings and the violations add up to the five checks, and
\* the status is COMPLIANT exactly when there is no violation.
C29_ReportSummaryAddsUp ==
    op = "generateComplianceReport" =>
        /\ result.summary.totalChecks = 5
        /\ result.summary.passedChecks + result.summary.warnings
              + result.summary.violations = result.summary.totalChecks
        /\ (result.complianceStatus = "COMPLIANT") <=>
              (Len(complianceData.violations) = 0)
        /\ result.complianceStatus \in {"COMPLIANT", "NON-COMPLIANT"}

C29_Witness ==
    /\ op = "generateComplianceReport"
    /\ result.summary.passedChecks > 0
    /\ result.summary.warnings > 0
    /\ result.summary.violations > 0
    /\ result.complianceStatus = "NON-COMPLIANT"

\* C30: checkLiquidityRequirements is compliant only for a series of at
\* least two observations whose last AUM is at most 30% of the mean AUM; a
\* single observation (average daily volume 0) and a constant AUM are never
\* compliant, however large the AUM.
C30_Aums == MapField(performanceData, "assets_under_management")

C30_Constant == \A i \in DOMAIN C30_Aums : C30_Aums[i] = C30_Aums[1]

C30_CompliantOnlyAfterDecline ==
    op = "checkLiquidityRequirements" =>
        LET n == Len(performanceData)
        IN  /\ result.compliant =>
                /\ n >= 2
                /\ 100 * C30_Aums[n] * n <= 30 * SumSeq(C30_Aums)
            /\ n = 1 =>
                /\ result.avgDailyVolume = JSRatio(0, 1)
                /\ ~result.compliant
            /\ C30_Constant => ~result.compliant

C30_Witness ==
    /\ op = "checkLiquidityRequirements"
    /\ Len(performanceData) >= 2
    /\ C30_Constant
    /\ C30_Aums[1] = 100
    /\ ~result.compliant
    /\ result.liquidityRatio = JSRatio(100 * 100 * Len(performanceData),
                                       100 * Len(performanceData))

\* C26: every GET request to a documented fixed path is answered by the
\* handler documented for that path, never by the per-fund handler of
\* /:fund_id or /:id.
C26_Documented ==
    {<<"compliance", "summary", "GET /compliance/summary">>,
     <<"compliance", "alerts", "GET /compliance/alerts">>,
     <<"compliance", "trends", "GET /compliance/trends">>,
     <<"funds", "types", "GET /funds/types">>,
     <<"funds", "families", "GET /funds/families">>}

C26_Answered == op # "none" /\ params \in Requests

C26_FixedPathsReachTheirHandlers ==
    C26_Answered =>
        \A d \in C26_Documented :
            (params.method = "GET" /\ params.mount = d[1] /\ params.path = <<d[2]>>)
                => result.handler = d[3]

\* C28: when a compliance endpoint evaluates a fund with two or more
\* performance rows, the AUM the liquidity check compares with the minimum
\* is the AUM of the fund's chronologically latest row.
C28_LiquidityUsesLatestAum ==
    (op \in ComplianceHandlers /\ result.status = 200 /\ Len(performanceData) >= 2)
        => complianceData.liquidityRequirements.aum
              = LatestPerformance(db, JSNum(fundData.id))[1].assets_under_management

\* C27: each statistic is rounded only as its last step.  The information
\* ratio is the mean excess return over the unrounded volatility of the
\* excess returns, rounded once, and 0 only where that volatility is
\* exactly zero; the CVaR is the mean of the returns at or below the
\* unrounded VaR element, rounded once.
C27_Excess == ExcessReturns(returnsArg, benchmarkArg.items)

C27_UnroundedVaR ==
    SortAscending(returnsArg)[VaRIndex(params.confidenceLevel, Len(returnsArg)) + 1]

C27_Tail == SelectSeq(returnsArg, LAMBDA ret : ret <= C27_UnroundedVaR)

C27_RoundedOnce ==
    /\ (op = "calculateInformationRatio" /\ Len(returnsArg) > 0
            /\ Len(returnsArg) = Len(benchmarkArg.items)) =>
        /\ ScaledVariance(C27_Excess) = 0 => result = JSNum(0)
        /\ ScaledVariance(C27_Excess) # 0 =>
                result = JSNum(RatioOverRoot(2 * SumSeq(C27_Excess), 1,
                                             ScaledVariance(C27_Excess)))
    /\ (op = "calculateCVaR" /\ Len(returnsArg) > 0) =>
        result = JSNum(ToFixedSigned(SumSeq(C27_Tail), 10 * Len(C27_Tail), 1))

====
